---- MODULE Spec2Model ----
(***************************************************************************)
(* The upstream cluster manager of sofa-mosn (package cluster in           *)
(* src/pkg/upstream/healthcheck/factory.go, lines 78-595): the registry of *)
(* primary clusters, the per-cluster RCU cell that holds the current       *)
(* v2.Cluster configuration, the writer entry points of the control plane  *)
(* and the snapshot get/put pair of the request path.                      *)
(*                                                                         *)
(* Heap objects are kept in sequences and referred to by their index; 0 is *)
(* the nil pointer.  Every handler is cut into steps at the points where   *)
(* another goroutine can observe or change shared state (a sync.Map        *)
(* access, a read of pc.cluster, an atomic operation on the RCU cell, the  *)
(* acquisition of pc.updateLock).                                          *)
(*                                                                         *)
(* Package rcu, simpleInMemCluster and NewHost are not among the source    *)
(* files; they are modelled from the specification (sections 3, 4.B, 4.F). *)
(***************************************************************************)
EXTENDS Integers, Sequences, FiniteSets, TLC

\* ---------------------------------------------------------------- bounds

\* Writer calls made after construction.
MaxOps == 2
\* Priorities are 0..MaxPriority (the program allows 0..127).
MaxPriority == 1
\* Writer calls made while connection pools are asked for.
MaxPoolOps == 1
\* Calls of NewClusterManager and Destory in a run.
MaxCalls == 3
\* Registrations of load balancer kinds and of session factories in a run.
MaxRegs == 2

Readers == {"r1", "r2"}
Writers == {1, 2}
Callers == {"m1", "m2"}
Names == {"c1", "c2"}
Priorities == 0..MaxPriority

\* The number of host choices of getActiveConnectionPool.
cycleTimes == 5
\* time.Millisecond, the first wait of getActiveConnectionPool; times are in ms.
Millisecond == 1

\* The protocols with a pool factory (types.ConnPoolFactories and
\* network.ConnNewPoolFactories), and the addresses hosts have.
Protocols == {"SofaRpc"}
Addresses == {"a", "b", "c"}

\* ---------------------------------------------------------------- values

\* v2.Host values the control plane sends.
HA == [address |-> "a", metadata |-> "v1"]
HB == [address |-> "b", metadata |-> "v1"]
HA2 == [address |-> "a", metadata |-> "v2"]
HC == [address |-> "c", metadata |-> "v1"]

\* Host lists given to UpdateClusterHosts / AppendClusterHosts.
UpdateLists == {<< >>, <<HA>>, <<HB, HA2>>}
AppendLists == {<<HA2>>}
RemoveAddrs == {"a", ""}
\* The host lists given to UpdateClusterHosts while pools are asked for.
PoolLists == {<< >>, <<HB>>}
\* The two host lists one writer alternates between.
AlternateLists == {<<HA, HB>>, <<HA, HB, HC>>}

\* v2.Cluster values given to AddOrUpdatePrimaryCluster.
LbTypes == {"LB_RANDOM", "LB_ROUNDROBIN"}
V2Cluster(name, lb, hosts) == [Name |-> name, LbType |-> lb, Hosts |-> hosts]
AddConfigs == {V2Cluster("c1", lb, hs) : lb \in LbTypes, hs \in {<< >>, <<HA>>}}
NoConfig == V2Cluster("", "", << >>)

\* Name lists given to RemovePrimaryCluster.
RemoveLists == {<<"c1">>, <<"c1", "c2">>}

\* The static configuration NewClusterManager is constructed with.
InitConfig == V2Cluster("c1", "LB_RANDOM", << >>)
InitHosts == <<HA>>

\* ------------------------------------------------------ pure functions

\* NewHost(hc, info): the Host built from a v2.Host; Config() gives it back.
NewHost(hc) == [config |-> hc]
Config(h) == h.config
AddressString(h) == h.config.address

\* The nil Host.
NoHost == [config |-> [address |-> "", metadata |-> ""]]

NewHosts(hcs) == [i \in 1..Len(hcs) |-> NewHost(hcs[i])]
HostsConfig(hosts) == [i \in 1..Len(hosts) |-> Config(hosts[i])]

\* NewCluster(conf, sourceAddr, addedViaAPI): a simpleInMemCluster with its
\* ClusterInfo (name, load balancer kind), no host and an empty priority set.
NewCluster(conf) ==
  [info |-> [name |-> conf.Name, lbType |-> conf.LbType],
   hosts |-> << >>,
   hostSets |-> << >>]

\* simpleInMemCluster.UpdateHosts(newHosts): replaces the cluster's host list
\* and the host set at priority 0 of its priority set.
SimpleInMemClusterUpdateHosts(c, newHosts) ==
  [c EXCEPT !.hosts = newHosts,
            !.hostSets = IF Len(@) = 0 THEN <<newHosts>>
                         ELSE [@ EXCEPT ![1] = newHosts]]

\* HostSetsByPriority()[p].Hosts() of a cluster object; no host set, no host.
HostsAt(c, p) == IF p + 1 <= Len(c.hostSets) THEN c.hostSets[p + 1] ELSE << >>

\* deepCopyCluster: a copy of the struct (a new object with the same fields).
deepCopyCluster(cluster) == cluster

\* rcu.NewValue / the element an Update stores: the value and no reader.
RcuElement(v) == [count |-> 0, value |-> v]
\* rcu.Value.Load and Put on an element's reader count.
RcuLoadCount(c) == c + 1
RcuPutCount(c) == c - 1
\* rcu.Value.Update after the store: nil once the previous element has no
\* reader, Block when the timeout (0 in every call of this package) is over.
RcuWait(count) == IF count = 0 THEN "nil" ELSE "Block"

\* NewPrimaryCluster(cluster, config, addedViaAPI); configLock is the index of
\* the element the cell points at.
NewPrimaryCluster(cluster, config, addedViaAPI, element) ==
  [cluster |-> cluster, addedViaAPI |-> addedViaAPI, configUsed |-> config,
   configLock |-> element, updateLock |-> 0]

\* ---------------------------------------------------------------- state

VARIABLES
  primaryClusters, \* clusterManager.primaryClusters: name -> primaryCluster, 0 absent
  pcs,             \* the primaryCluster objects
  clusters,        \* the simpleInMemCluster objects
  elems,           \* the elements of the RCU cells
  rpc, rsnap,      \* each reader's position and its clusterSnapshot
  wpc, wop, wl, wres, \* each writer's position, call, locals and last result
  ops,             \* writer calls made so far
  lastDone,        \* history: the writer whose call returned last, 0 none
  elemCluster,     \* history: pc.cluster when the element was stored
  lastHolder,      \* history: per primaryCluster, the last call to take updateLock
  stalePut,        \* history: a snapshot was put after its cell had been updated
  protocolConnPool, \* clusterManager.protocolConnPool: protocol -> address -> pool, 0 absent
  connPools,       \* the ConnectionPool objects
  rq,              \* each reader's ConnPoolForCluster call: its locals and result
  clusterMangerInstance, \* the package variable: a clusterManager object, 0 nil
  instanceMutex,   \* the caller that holds instanceMutex, "" none
  managers,        \* the clusterManager objects constructed so far
  nc,              \* each caller's NewClusterManager or Destory call
  calls,           \* calls of NewClusterManager and Destory made so far
  lbFactories,     \* the load balancer registry: kind -> factory, NoFactory absent
  sessionFactories, \* the session factory registry: protocol -> factory, NoFactory absent
  registered,      \* history: the registrations made, in order
  ps,              \* the priority sets load balancers are built over: the hosts at priority 0
  lbCall,          \* the last NewLoadBalancer / ChooseHost call and its result
  hcCall,          \* the last CreateHealthCheck call and its result
  listener,        \* the network listener: its fields and the position of Start
  clusterMngAdapter, \* the cluster manager adapter instance: 0 nil
  xds              \* the ConvertUpdateEndpoints call: its locals and result

vars == <<primaryClusters, pcs, clusters, elems, rpc, rsnap, wpc, wop, wl, wres,
          ops, lastDone, elemCluster, lastHolder, stalePut,
          protocolConnPool, connPools, rq,
          clusterMangerInstance, instanceMutex, managers, nc, calls,
          lbFactories, sessionFactories, registered, ps, lbCall, hcCall,
          listener, clusterMngAdapter, xds>>

heap == <<primaryClusters, pcs, clusters, elems, elemCluster, lastHolder>>
poolVars == <<protocolConnPool, connPools, rq>>
readerVars == <<rpc, rsnap, stalePut, poolVars>>
writerVars == <<wpc, wop, wl, wres, ops, lastDone>>
managerVars == <<clusterMangerInstance, instanceMutex, managers, nc, calls>>
registryVars == <<lbFactories, sessionFactories, registered, ps, lbCall, hcCall>>
edgeVars == <<listener, clusterMngAdapter, xds>>

NoSnapshot == [prioritySet |-> 0, clusterInfo |-> 0, loadbalancer |-> 0,
               value |-> 0, config |-> 0]
NoOp == [op |-> "none", name |-> "", priority |-> 0, hosts |-> << >>,
         addr |-> "", cfg |-> NoConfig, names |-> << >>]
\* before, registered, since and returned are history: the hosts of the cluster
\* and the registered names when the call was made, the number of the call
\* when no other writer was running then (0 otherwise), and the number of
\* calls made when pc.UpdateHosts or pc.UpdateCluster returned.
NoLocals == [pc |-> 0, hosts |-> << >>, cluster |-> 0, old |-> 0, i |-> 0, err |-> "none",
             before |-> << >>, registered |-> {}, since |-> 0, returned |-> 0]
NoHolder == [w |-> 0, op |-> "none", arg |-> << >>]

\* A caller of NewClusterManager or Destory: its position, the arguments of
\* its call and what the call returned (result 0 is nil or nothing).
NoCall == [pc |-> "idle", op |-> "none", sourceAddr |-> "", clusters |-> << >>,
           clusterMap |-> << >>, result |-> 0]

\* The sourceAddr of the first NewClusterManager call.
InitSourceAddr == "s1"

\* Load balancer kinds: the two built in and the one the test registers.
headerKey == "HeaderKey"
LbKinds == LbTypes \cup {headerKey}

\* Factories, of load balancers and of health check sessions: what they build
\* and, for headerLBCfg, the header key.
NoFactory == [type |-> "none", key |-> ""]
headerLBCfg(key) == [type |-> "headerLB", key |-> key]
RandomFactory == [type |-> "random", key |-> ""]
RoundRobinFactory == [type |-> "roundRobin", key |-> ""]
LbFactories == {headerLBCfg("hostname"), RandomFactory}
mockSessionFactory == [type |-> "mockSessionFactory", key |-> ""]
TCPDialSessionFactory == [type |-> "TCPDialSessionFactory", key |-> ""]
SessionFactories == {mockSessionFactory, [type |-> "pingSessionFactory", key |-> ""]}
HcProtocols == {"SofaRpc", "Http1", "Other"}

\* The registry of load balancers before any RegisterLBType of the program.
BuiltinFactory(kind) ==
  IF kind = "LB_RANDOM" THEN RandomFactory
  ELSE IF kind = "LB_ROUNDROBIN" THEN RoundRobinFactory
  ELSE NoFactory

\* The hosts load balancers choose from: hostname, address, the value of the
\* metadata key version, and Health().
LbHost(hostname, address, version) ==
  [hostname |-> hostname, address |-> address, version |-> version, healthy |-> TRUE]
NoLbHost == [hostname |-> "", address |-> "", version |-> "", healthy |-> FALSE]
Hostname(h) == h.hostname
Health(h) == h.healthy

\* Two priority sets; the first has two hosts named e1.
PsIds == {1, 2}
ExamplePrioritySets ==
  <<<<LbHost("e1", "a1", "1.0"), LbHost("e3", "a3", "1.1"),
      LbHost("e5", "a5", "1.0"), LbHost("e1", "a6", "1.0")>>,
    <<LbHost("e3", "a7", "1.1")>>>>

\* A load balancer object, and the request contexts: the downstream headers
\* (nil, or a map given as pairs) and the metadata criterion on version ("" none).
NoLb == [type |-> "none", key |-> "", prioritySet |-> 0, subset |-> FALSE,
         fallback |-> ""]
NoCtx == [nilHeaders |-> TRUE, headers |-> {}, version |-> ""]
LbContexts ==
  {[nilHeaders |-> n, headers |-> hs, version |-> v] :
     n \in {FALSE}, v \in {"", "1.0", "2.0"},
     hs \in {{}, {<<"hostname", "e1">>}, {<<"hostname", "e3">>},
             {<<"hostname", "e9">>}, {<<"other", "e1">>}}}
  \cup {[NoCtx EXCEPT !.version = v] : v \in {"", "1.0"}}
FallbackPolicies == {"NoFallback", "AnyEndpoint"}

\* regs is history: the number of registrations made before the call.
NoLbCall == [op |-> "none", kind |-> "", ps |-> 0, lb |-> NoLb, ctx |-> NoCtx,
             host |-> NoLbHost, regs |-> 0]
NoHcCall == [op |-> "none", protocol |-> "", checker |-> [sessionFactory |-> NoFactory],
             regs |-> 0]

\* The locals of getActiveConnectionPool (i, host, pool, pools, t) and what
\* ConnPoolForCluster returned (result 0 is the nil pool).  chosen, ready,
\* chooses and slept are history: the addresses of the hosts ChooseHost gave in
\* this call, the pools whose CheckAndInit returned true in it, the number of
\* its ChooseHost calls and the sleeps it made, in milliseconds.  cancelled is
\* the state of the cancellation token of the balancer context.
NoRequest == [protocol |-> "", i |-> 0, host |-> NoHost, pool |-> 0,
              pools |-> [k \in 1..cycleTimes |-> 0], t |-> 0, waitTime |-> 0,
              result |-> 0, err |-> "none", chosen |-> {}, ready |-> {},
              chooses |-> 0, slept |-> << >>, cancelled |-> FALSE]

\* An error of l.rawl.Accept(): its dynamic type (*net.OpError or another
\* one) and what its Timeout() and Temporary() give; type "nil" is no error.
AcceptError(type, timeout, temporary) ==
  [type |-> type, timeout |-> timeout, temporary |-> temporary]
NoAcceptError == AcceptError("nil", FALSE, FALSE)

\* No listener yet.  pc is the position of Start ("new" before it runs), rawl
\* is whether l.rawl is not nil, deadline whether the deadline of l.rawl has
\* passed, closed whether l.rawl was closed, accepted the connections handed
\* to OnAccept, err the last result of l.accept, stopErr what the last Stop or
\* Close returned.
NoListener == [pc |-> "none", bindToPort |-> FALSE, rawl |-> FALSE,
               deadline |-> FALSE, closed |-> FALSE, accepted |-> 0,
               err |-> NoAcceptError, stopErr |-> ""]

\* No ConvertUpdateEndpoints call.  rest is the load assignments not yet
\* visited, name and groups the current one, hosts the endpoint group being
\* updated, errGlobal the error kept so far ("nil" none), base the number of
\* writer calls when the attempt began; attempts and total are history: the
\* results of the attempts made and the number of endpoint groups of the call.
NoXds == [pc |-> "idle", rest |-> << >>, name |-> "", groups |-> << >>,
          hosts |-> << >>, errGlobal |-> "nil", base |-> 0, attempts |-> << >>,
          total |-> 0]

\* The state NewClusterManager(sourceAddr, <<InitConfig>>, c1 -> InitHosts)
\* returns: loadCluster registered c1 (added with addedViaAPI = true, line 149
\* goes through AddOrUpdatePrimaryCluster), then UpdateClusterHosts(c1, 0,
\* InitHosts) ran with no reader.
Init ==
  /\ primaryClusters = [n \in Names |-> IF n = "c1" THEN 1 ELSE 0]
  /\ clusters = <<SimpleInMemClusterUpdateHosts(NewCluster(InitConfig), NewHosts(InitHosts))>>
  /\ elems = <<RcuElement(InitConfig),
               RcuElement([InitConfig EXCEPT !.Hosts = InitHosts])>>
  /\ pcs = <<NewPrimaryCluster(1, [InitConfig EXCEPT !.Hosts = InitHosts], TRUE, 2)>>
  /\ rpc = [r \in Readers |-> "idle"]
  /\ rsnap = [r \in Readers |-> NoSnapshot]
  /\ wpc = [w \in Writers |-> "idle"]
  /\ wop = [w \in Writers |-> NoOp]
  /\ wl = [w \in Writers |-> NoLocals]
  /\ wres = [w \in Writers |-> "none"]
  /\ ops = 0
  /\ lastDone = 0
  /\ elemCluster = <<1, 1>>
  /\ lastHolder = <<NoHolder>>
  /\ stalePut = FALSE
  /\ protocolConnPool = [p \in Protocols |-> [a \in Addresses |-> 0]]
  /\ connPools = << >>
  /\ rq = [r \in Readers |-> NoRequest]
  /\ clusterMangerInstance = 1
  /\ instanceMutex = ""
  /\ managers = <<[sourceAddr |-> InitSourceAddr]>>
  /\ nc = [c \in Callers |-> NoCall]
  /\ calls = 0
  /\ lbFactories = [k \in LbKinds |-> BuiltinFactory(k)]
  /\ sessionFactories = [p \in HcProtocols |-> NoFactory]
  /\ registered = << >>
  /\ ps = ExamplePrioritySets
  /\ lbCall = NoLbCall
  /\ hcCall = NoHcCall
  /\ listener = NoListener
  /\ clusterMngAdapter = 1
  /\ xds = NoXds

\* Mutant: no mutual exclusion.
MayLockAlways(pc) == TRUE

\* Whether pc.updateLock.Lock() can return.
MayLock(pc) == pcs[pc].updateLock = 0

\* Mutant: the deferred Unlock is missing.
UnlockSkipped(holder) == holder

\* pc.updateLock after the deferred pc.updateLock.Unlock().
Unlock(holder) == 0

\* -------------------------------------------------------------- readers

\* The parts of a cluster object a snapshot refers to: references, so the
\* index of the object that owns the part.
PrioritySet(c) == c
Info(c) == c
LBInstance(info) == info

\* GetClusterSnapshot up to the last field of the snapshot: the map lookup and
\* the reads of pc.cluster, taken without pc.updateLock.
GetClusterSnapshot(r, name) ==
  /\ UNCHANGED <<managerVars, registryVars, edgeVars>>
  /\ rpc[r] = "idle"
  /\ IF primaryClusters[name] = 0
     THEN /\ rsnap' = [rsnap EXCEPT ![r] = NoSnapshot]
          /\ rpc' = rpc
     ELSE LET pc == primaryClusters[name]
              pcc == pcs[pc].cluster
          IN /\ rsnap' = [rsnap EXCEPT ![r] =
                            [prioritySet |-> PrioritySet(pcc),
                             clusterInfo |-> Info(pcc),
                             loadbalancer |-> LBInstance(Info(pcc)),
                             value |-> pc,
                             config |-> 0]]
             /\ rpc' = [rpc EXCEPT ![r] = "load"]
  /\ UNCHANGED <<heap, writerVars, stalePut, poolVars>>

\* Mutant: the reader waits for pc.updateLock before it loads the cell.
GetClusterSnapshotLoadLocked(r) ==
  /\ UNCHANGED <<managerVars, registryVars, edgeVars>>
  /\ rpc[r] = "load"
  /\ MayLock(rsnap[r].value)
  /\ LET e == pcs[rsnap[r].value].configLock
     IN /\ elems' = [elems EXCEPT ![e].count = RcuLoadCount(@)]
        /\ rsnap' = [rsnap EXCEPT ![r].config = e]
  /\ rpc' = [rpc EXCEPT ![r] = "holding"]
  /\ UNCHANGED <<primaryClusters, pcs, clusters, elemCluster, lastHolder, writerVars,
                 stalePut, poolVars>>

\* GetClusterSnapshot, config: pc.configLock.Load(): the element the cell points
\* at now, with one more reader.
GetClusterSnapshotLoad(r) ==
  /\ UNCHANGED <<managerVars, registryVars, edgeVars>>
  /\ rpc[r] = "load"
  /\ LET e == pcs[rsnap[r].value].configLock
     IN /\ elems' = [elems EXCEPT ![e].count = RcuLoadCount(@)]
        /\ rsnap' = [rsnap EXCEPT ![r].config = e]
  /\ rpc' = [rpc EXCEPT ![r] = "holding"]
  /\ UNCHANGED <<primaryClusters, pcs, clusters, elemCluster, lastHolder, writerVars,
                 stalePut, poolVars>>

\* Mutant: the put goes to the element the cell points at now.
PutElementCurrent(s) == pcs[s.value].configLock

\* The element PutClusterSnapshot puts: s.config.
PutElement(s) == s.config

\* PutClusterSnapshot(snapshot): s.value.Put(s.config).
PutClusterSnapshot(r) ==
  /\ UNCHANGED <<managerVars, registryVars, edgeVars>>
  /\ rpc[r] = "holding"
  /\ elems' = [elems EXCEPT ![PutElement(rsnap[r])].count = RcuPutCount(@)]
  /\ rsnap' = [rsnap EXCEPT ![r] = NoSnapshot]
  /\ rpc' = [rpc EXCEPT ![r] = "idle"]
  /\ stalePut' = (stalePut \/ rsnap[r].config # pcs[rsnap[r].value].configLock)
  /\ UNCHANGED <<primaryClusters, pcs, clusters, elemCluster, lastHolder, writerVars, poolVars>>

\* ---------------------------------------------------------------- pools

\* LoadBalancer.ChooseHost on the load balancer of a cluster object: one of the
\* hosts of its priority set, nil when there is none.
ChooseHost(lb) ==
  LET hosts == HostsAt(clusters[lb], 0)
  IN {hosts[j] : j \in 1..Len(hosts)}

\* network.ConnNewPoolFactories[protocol](host): a pool of the protocol for the
\* host, with no connection yet.
NewPool(protocol, host) == [protocol |-> protocol, host |-> host, state |-> "new"]

\* ConnectionPool.CheckAndInit: true when the pool has a connection that is
\* ready; otherwise it starts to connect, if it has not yet, and is false.
CheckAndInit(p) == connPools[p].state = "ready"
Connecting(pool) == [pool EXCEPT !.state = IF @ = "new" THEN "connecting" ELSE @]

\* What ConnPoolForCluster returns, with the locals of the call dropped.
RequestReturn(q, pool, err) ==
  [NoRequest EXCEPT !.protocol = q.protocol, !.result = pool, !.err = err,
                    !.chosen = q.chosen, !.ready = q.ready,
                    !.chooses = q.chooses, !.slept = q.slept]

\* The position after the i-th host choice: the next choice, or the waits.
AfterChoice(i) == IF i = cycleTimes THEN "wait" ELSE "choose"

\* ConnPoolForCluster(balancerContext, snapshot, protocol) with a snapshot that
\* GetClusterSnapshot gave: the call of getActiveConnectionPool.
ConnPoolForCluster(r, protocol) ==
  /\ UNCHANGED <<managerVars, registryVars, edgeVars>>
  /\ rpc[r] = "holding"
  /\ rq' = [rq EXCEPT ![r] = [NoRequest EXCEPT !.protocol = protocol,
                                               !.waitTime = Millisecond]]
  /\ rpc' = [rpc EXCEPT ![r] = "choose"]
  /\ UNCHANGED <<heap, writerVars, rsnap, stalePut, protocolConnPool, connPools>>

\* What a caller can pass for the snapshot besides a *clusterSnapshot it holds:
\* the nil interface (what GetClusterSnapshot returns for an unknown name), or
\* a types.ClusterSnapshot of another implementation.
OtherSnapshots == {"nil", "foreign"}

\* ConnPoolForCluster(balancerContext, snapshot, protocol) with such a
\* snapshot, lines 484-491.  On nil the arguments of the Errorf of line 485 are
\* evaluated first: snapshot.ClusterInfo() is a method call on a nil interface,
\* a run-time panic, and the caller's goroutine does not come back.  On a
\* foreign snapshot the type assertion fails and nil is returned.
ConnPoolForClusterOther(r, protocol, snapshot) ==
  /\ UNCHANGED <<managerVars, registryVars, edgeVars>>
  /\ rpc[r] = "idle"
  /\ IF snapshot = "nil"
     THEN /\ rq' = [rq EXCEPT ![r] = [NoRequest EXCEPT !.protocol = protocol,
                                                       !.err = "panic"]]
          /\ rpc' = [rpc EXCEPT ![r] = "panicked"]
     ELSE /\ rq' = [rq EXCEPT ![r] =
                      [NoRequest EXCEPT !.protocol = protocol,
                                        !.err = "unexpected cluster snapshot"]]
          /\ rpc' = rpc
  /\ UNCHANGED <<heap, writerVars, rsnap, stalePut, protocolConnPool, connPools>>

\* TCPConnForCluster(lbCtx, snapshot), lines 465-481: empty connection data
\* for a nil or foreign snapshot; otherwise one ChooseHost on the snapshot's
\* load balancer and the connection data of the host (host.CreateConnection),
\* or empty data when there is no host.  The host of the data is in rq.host.
TCPConnForCluster(r, snapshot) ==
  /\ UNCHANGED <<managerVars, registryVars, edgeVars>>
  /\ IF snapshot \in OtherSnapshots
     THEN /\ rpc[r] = "idle"
          /\ rq' = [rq EXCEPT ![r] = [NoRequest EXCEPT !.err = "empty"]]
     ELSE /\ rpc[r] = "holding"
          /\ LET hosts == ChooseHost(rsnap[r].loadbalancer)
             IN IF hosts = {}
                THEN rq' = [rq EXCEPT ![r] = [NoRequest EXCEPT !.chooses = 1,
                                                               !.err = "empty"]]
                ELSE \E host \in hosts :
                       rq' = [rq EXCEPT ![r] =
                                [NoRequest EXCEPT !.chooses = 1, !.host = host,
                                                  !.chosen = {AddressString(host)},
                                                  !.err = "nil"]]
  /\ UNCHANGED <<heap, writerVars, rpc, rsnap, stalePut, protocolConnPool, connPools>>

\* Mutant: the pool of the last lookup is returned with the error.
NilHostPoolRemembered(q) == q.pool

\* The pool returned when ChooseHost gave nil, line 509: nil.
NilHostPool(q) == 0

\* One turn of the first loop of getActiveConnectionPool, lines 507-528:
\* ChooseHost, the lookup of the pool of the host's address without the lock
\* and, when there is one, its CheckAndInit.
getActiveConnectionPoolChoose(r) ==
  /\ UNCHANGED <<managerVars, registryVars, edgeVars>>
  /\ rpc[r] = "choose"
  /\ LET q == [rq[r] EXCEPT !.chooses = @ + 1]
         hosts == ChooseHost(rsnap[r].loadbalancer)
     IN IF hosts = {}
        THEN /\ rq' = [rq EXCEPT ![r] = RequestReturn(q, NilHostPool(q), "ChooseHost is nil")]
             /\ rpc' = [rpc EXCEPT ![r] = "holding"]
             /\ UNCHANGED connPools
        ELSE \E host \in hosts :
          LET addr == AddressString(host)
              connPool == protocolConnPool[q.protocol][addr]
              chosen == q.chosen \cup {addr}
          IN IF connPool = 0
             THEN /\ rq' = [rq EXCEPT ![r] = [q EXCEPT !.host = host, !.chosen = chosen]]
                  /\ rpc' = [rpc EXCEPT ![r] = "create"]
                  /\ UNCHANGED connPools
             ELSE IF CheckAndInit(connPool)
             THEN /\ rq' = [rq EXCEPT ![r] =
                              RequestReturn([q EXCEPT !.chosen = chosen,
                                                      !.ready = @ \cup {connPool}],
                                            connPool, "nil")]
                  /\ rpc' = [rpc EXCEPT ![r] = "holding"]
                  /\ UNCHANGED connPools
             ELSE /\ connPools' = [connPools EXCEPT ![connPool] = Connecting(@)]
                  /\ rq' = [rq EXCEPT ![r] =
                              [q EXCEPT !.host = host, !.chosen = chosen,
                                        !.pool = connPool,
                                        !.pools[q.i + 1] = connPool,
                                        !.i = q.i + 1]]
                  /\ rpc' = [rpc EXCEPT ![r] = AfterChoice(q.i + 1)]
  /\ UNCHANGED <<heap, writerVars, rsnap, stalePut, protocolConnPool>>

\* The positions of a reader inside getActiveConnectionPool.
InRequest(r) == rpc[r] \in {"choose", "create", "wait"}

\* The owner of the request cancels the context that
\* balancerContext.DownstreamContext() gives, while the call is in progress.
Cancel(r) ==
  /\ UNCHANGED <<managerVars, registryVars, edgeVars>>
  /\ InRequest(r)
  /\ ~rq[r].cancelled
  /\ rq' = [rq EXCEPT ![r].cancelled = TRUE]
  /\ UNCHANGED <<heap, writerVars, rpc, rsnap, stalePut, protocolConnPool, connPools>>

\* Mutant: the lookup is not made again once cm.mux is held.
StillAbsentUnchecked(protocol, addr) == TRUE

\* The second lookup, made under cm.mux, line 534.
StillAbsent(protocol, addr) == protocolConnPool[protocol][addr] = 0

\* Mutant: the store leaves the map with the one entry.
StoreOnly(connectionPool, addr, newPool) ==
  [a \in DOMAIN connectionPool |-> IF a = addr THEN newPool ELSE 0]

\* connectionPool.Store(addr, newPool), line 537.
Store(connectionPool, addr, newPool) == [connectionPool EXCEPT ![addr] = newPool]

\* The rest of the turn when the lookup found no pool, lines 530-551, all of
\* it under cm.mux: the second lookup and, when there is still no pool, the
\* new pool, its store under the address and its first CheckAndInit.
getActiveConnectionPoolCreate(r) ==
  /\ UNCHANGED <<managerVars, registryVars, edgeVars>>
  /\ rpc[r] = "create"
  /\ LET q == rq[r]
         addr == AddressString(q.host)
         newPool == Len(connPools) + 1
     IN /\ IF StillAbsent(q.protocol, addr)
           THEN /\ connPools' = Append(connPools, Connecting(NewPool(q.protocol, q.host)))
                /\ protocolConnPool' =
                     [protocolConnPool EXCEPT ![q.protocol] = Store(@, addr, newPool)]
                /\ rq' = [rq EXCEPT ![r] = [q EXCEPT !.pools[q.i + 1] = newPool,
                                                     !.i = q.i + 1]]
           ELSE /\ rq' = [rq EXCEPT ![r] = [q EXCEPT !.i = q.i + 1]]
                /\ UNCHANGED <<connPools, protocolConnPool>>
        /\ rpc' = [rpc EXCEPT ![r] = AfterChoice(q.i + 1)]
  /\ UNCHANGED <<heap, writerVars, rsnap, stalePut>>

\* Mutant: the wait loop returns the pool of the last lookup.
PolledPoolLast(q, k) == q.pool

\* The pool the wait loop returns when its k-th remembered pool is ready.
PolledPool(q, k) == q.pools[k]

\* Mutant: the wait time is not multiplied.
NextWaitSame(waitTime) == waitTime

\* waitTime *= 10.
NextWait(waitTime) == waitTime * 10

\* One turn of the wait loop, lines 556-567: the sleep, then CheckAndInit of
\* the remembered pools in order, up to the first that is ready.
getActiveConnectionPoolWait(r) ==
  /\ UNCHANGED <<managerVars, registryVars, edgeVars>>
  /\ rpc[r] = "wait"
  /\ LET q == [rq[r] EXCEPT !.slept = Append(@, rq[r].waitTime)]
         ok == {k \in 1..cycleTimes : q.pools[k] # 0 /\ CheckAndInit(q.pools[k])}
     IN IF ok # {}
        THEN LET k == CHOOSE j \in ok : \A m \in ok : j <= m
             IN /\ rq' = [rq EXCEPT ![r] =
                            RequestReturn([q EXCEPT !.ready = @ \cup {q.pools[k]}],
                                          PolledPool(q, k), "nil")]
                /\ rpc' = [rpc EXCEPT ![r] = "holding"]
        ELSE IF q.t + 1 = 4
        THEN /\ rq' = [rq EXCEPT ![r] = RequestReturn(q, 0, "no health hosts")]
             /\ rpc' = [rpc EXCEPT ![r] = "holding"]
        ELSE /\ rq' = [rq EXCEPT ![r] = [q EXCEPT !.t = q.t + 1,
                                                  !.waitTime = NextWait(q.waitTime)]]
             /\ UNCHANGED rpc
  /\ UNCHANGED <<heap, writerVars, rsnap, stalePut, protocolConnPool, connPools>>

\* The network: a pool that is connecting gets its connection.
PoolConnected(p) ==
  /\ UNCHANGED <<managerVars, registryVars, edgeVars>>
  /\ connPools[p].state = "connecting"
  /\ connPools' = [connPools EXCEPT ![p].state = "ready"]
  /\ UNCHANGED <<heap, writerVars, rpc, rsnap, stalePut, protocolConnPool, rq>>

\* -------------------------------------------------------------- writers

Call(w, op) ==
  /\ wpc[w] = "idle"
  /\ ops < MaxOps
  /\ ops' = ops + 1
  /\ wop' = [wop EXCEPT ![w] = op]

\* History: the number of the call w makes now, 0 when another writer is running.
Since(w) == IF \A v \in Writers \ {w} : wpc[v] = "idle" THEN ops + 1 ELSE 0

\* History: no other writer has run since w made the call it is in.
Alone(w) == wl[w].since = ops /\ \A v \in Writers \ {w} : wpc[v] = "idle"

\* The names registered in cm.primaryClusters.
Registered == {n \in Names : primaryClusters[n] # 0}

Return(w, res) ==
  /\ wpc' = [wpc EXCEPT ![w] = "idle"]
  /\ wres' = [wres EXCEPT ![w] = res]
  /\ lastDone' = w

\* Mutant: a name that is not registered is passed over and the call returns nil.
UpdateClusterHostsNilOnMissing(w, name, priority, hostConfigs) ==
  /\ UNCHANGED <<managerVars, registryVars, edgeVars>>
  /\ Call(w, [NoOp EXCEPT !.op = "UpdateClusterHosts", !.name = name,
                          !.priority = priority, !.hosts = hostConfigs])
  /\ IF primaryClusters[name] = 0
     THEN /\ Return(w, "nil")
          /\ wl' = [wl EXCEPT ![w] = NoLocals]
     ELSE /\ wl' = [wl EXCEPT ![w] = [NoLocals EXCEPT !.pc = primaryClusters[name],
                                                     !.hosts = NewHosts(hostConfigs)]]
          /\ wpc' = [wpc EXCEPT ![w] = "UpdateHosts"]
          /\ UNCHANGED <<wres, lastDone>>
  /\ UNCHANGED <<heap, readerVars>>

\* UpdateClusterHosts(clusterName, priority, hostConfigs) up to the call of
\* pc.UpdateHosts; priority is not used.
UpdateClusterHosts(w, name, priority, hostConfigs) ==
  /\ UNCHANGED <<managerVars, registryVars, edgeVars>>
  /\ Call(w, [NoOp EXCEPT !.op = "UpdateClusterHosts", !.name = name,
                          !.priority = priority, !.hosts = hostConfigs])
  /\ IF primaryClusters[name] = 0
     THEN /\ Return(w, "not found")
          /\ wl' = [wl EXCEPT ![w] = NoLocals]
     ELSE /\ wl' = [wl EXCEPT ![w] = [NoLocals EXCEPT !.pc = primaryClusters[name],
                                                     !.hosts = NewHosts(hostConfigs)]]
          /\ wpc' = [wpc EXCEPT ![w] = "UpdateHosts"]
          /\ UNCHANGED <<wres, lastDone>>
  /\ UNCHANGED <<heap, readerVars>>

\* primaryCluster.UpdateHosts, lines 226-230: the lock, c.UpdateHosts(hosts) on
\* the cluster object pc.cluster refers to, hosts = c.hosts.
UpdateHostsLock(w) ==
  /\ UNCHANGED <<managerVars, registryVars, edgeVars>>
  /\ wpc[w] = "UpdateHosts"
  /\ MayLock(wl[w].pc)
  /\ LET pc == wl[w].pc
         c == pcs[pc].cluster
         updated == SimpleInMemClusterUpdateHosts(clusters[c], wl[w].hosts)
     IN /\ pcs' = [pcs EXCEPT ![pc].updateLock = w]
        /\ clusters' = [clusters EXCEPT ![c] = updated]
        /\ wl' = [wl EXCEPT ![w].hosts = updated.hosts]
        /\ lastHolder' = [lastHolder EXCEPT ![pc] =
                            [w |-> w, op |-> wop[w].op, arg |-> wop[w].hosts]]
  /\ wpc' = [wpc EXCEPT ![w] = "UpdateHostsStore"]
  /\ UNCHANGED <<primaryClusters, elems, elemCluster, readerVars, wop, wres, ops, lastDone>>

\* Mutant: the new configuration is built but the cell keeps the old one.
UpdateHostsStoreKeepsOld(w) ==
  /\ UNCHANGED <<managerVars, registryVars, edgeVars>>
  /\ wpc[w] = "UpdateHostsStore"
  /\ LET pc == wl[w].pc
         config == [deepCopyCluster(pcs[pc].configUsed) EXCEPT
                      !.Hosts = HostsConfig(wl[w].hosts)]
     IN /\ elems' = Append(elems, RcuElement(config))
        /\ elemCluster' = Append(elemCluster, pcs[pc].cluster)
        /\ pcs' = [pcs EXCEPT ![pc].configUsed = config]
        /\ wl' = [wl EXCEPT ![w].old = pcs[pc].configLock]
  /\ wpc' = [wpc EXCEPT ![w] = "UpdateHostsWait"]
  /\ UNCHANGED <<primaryClusters, clusters, lastHolder, readerVars, wop, wres, ops, lastDone>>

\* Mutant: config is pc.configUsed itself, the object the current element
\* of the cell holds, and the assignment writes into it.
HostsAssignedInPlace(es, cur, hostsConfig) == [es EXCEPT ![cur].value.Hosts = hostsConfig]

\* The elements of the cell after `config.Hosts = hostsConfig` (line 237):
\* config is the copy deepCopyCluster made at line 232, a new object, so the
\* assignment writes into no element that was stored before.
HostsAssigned(es, cur, hostsConfig) == es

\* primaryCluster.UpdateHosts, lines 232-239: the new configuration and the
\* store of pc.configLock.Update.
UpdateHostsStore(w) ==
  /\ UNCHANGED <<managerVars, registryVars, edgeVars>>
  /\ wpc[w] = "UpdateHostsStore"
  /\ LET pc == wl[w].pc
         config == [deepCopyCluster(pcs[pc].configUsed) EXCEPT
                      !.Hosts = HostsConfig(wl[w].hosts)]
     IN /\ elems' = Append(HostsAssigned(elems, pcs[pc].configLock,
                                         HostsConfig(wl[w].hosts)),
                           RcuElement(config))
        /\ elemCluster' = Append(elemCluster, pcs[pc].cluster)
        /\ pcs' = [pcs EXCEPT ![pc].configUsed = config,
                              ![pc].configLock = Len(elems) + 1]
        /\ wl' = [wl EXCEPT ![w].old = pcs[pc].configLock]
  /\ wpc' = [wpc EXCEPT ![w] = "UpdateHostsWait"]
  /\ UNCHANGED <<primaryClusters, clusters, lastHolder, readerVars, wop, wres, ops, lastDone>>

\* Mutant: the Block error is dropped.
UpdateHostsResultNil(err) == "nil"

\* What primaryCluster.UpdateHosts returns for the error of configLock.Update.
UpdateHostsResult(err) == IF err = "Block" THEN "Block" ELSE "nil"

\* What UpdateClusterHosts, AppendClusterHosts and RemoveClusterHost return for
\* the error of pc.UpdateHosts: nil, or an error that wraps it.
HostsCallResult(err) == IF err # "nil" THEN "error" ELSE "nil"

\* The locals a call leaves behind when it returns: the primaryCluster it
\* worked on, the element its Update replaced and the error pc.UpdateHosts or
\* pc.UpdateCluster gave.
Returned(l, err) == [NoLocals EXCEPT !.pc = l.pc, !.old = l.old, !.err = err,
                                     !.before = l.before, !.returned = ops]

\* primaryCluster.UpdateHosts, lines 239-245: the end of pc.configLock.Update,
\* the deferred unlock and the return to the caller, which returns in turn.
UpdateHostsWait(w) ==
  /\ UNCHANGED <<managerVars, registryVars, edgeVars>>
  /\ wpc[w] = "UpdateHostsWait"
  /\ LET err == UpdateHostsResult(RcuWait(elems[wl[w].old].count))
     IN /\ Return(w, HostsCallResult(err))
        /\ wl' = [wl EXCEPT ![w] = Returned(@, err)]
  /\ pcs' = [pcs EXCEPT ![wl[w].pc].updateLock = Unlock(@)]
  /\ UNCHANGED <<primaryClusters, clusters, elems, elemCluster, lastHolder,
                 readerVars, wop, ops>>

\* Mutant: the hosts the cluster has are not copied in front of the new ones.
AppendClusterHostsOnlyNew(w, name, priority, hostConfigs) ==
  /\ UNCHANGED <<managerVars, registryVars, edgeVars>>
  /\ Call(w, [NoOp EXCEPT !.op = "AppendClusterHosts", !.name = name,
                          !.priority = priority, !.hosts = hostConfigs])
  /\ IF primaryClusters[name] = 0
     THEN /\ Return(w, "not found")
          /\ wl' = [wl EXCEPT ![w] = NoLocals]
     ELSE LET pc == primaryClusters[name]
              pcc == pcs[pc].cluster
          IN /\ wl' = [wl EXCEPT ![w] =
                         [NoLocals EXCEPT !.pc = pc,
                                          !.hosts = NewHosts(hostConfigs),
                                          !.before = clusters[pcc].hosts,
                                          !.since = Since(w)]]
             /\ wpc' = [wpc EXCEPT ![w] = "UpdateHosts"]
             /\ UNCHANGED <<wres, lastDone>>
  /\ UNCHANGED <<heap, readerVars>>

\* AppendClusterHosts up to the call of pc.UpdateHosts: the hosts of pc.cluster
\* as read without the lock, followed by the new ones.
AppendClusterHosts(w, name, priority, hostConfigs) ==
  /\ UNCHANGED <<managerVars, registryVars, edgeVars>>
  /\ Call(w, [NoOp EXCEPT !.op = "AppendClusterHosts", !.name = name,
                          !.priority = priority, !.hosts = hostConfigs])
  /\ IF primaryClusters[name] = 0
     THEN /\ Return(w, "not found")
          /\ wl' = [wl EXCEPT ![w] = NoLocals]
     ELSE LET pc == primaryClusters[name]
              pcc == pcs[pc].cluster
          IN /\ wl' = [wl EXCEPT ![w] =
                         [NoLocals EXCEPT !.pc = pc,
                                          !.hosts = clusters[pcc].hosts \o NewHosts(hostConfigs),
                                          !.before = clusters[pcc].hosts,
                                          !.since = Since(w)]]
             /\ wpc' = [wpc EXCEPT ![w] = "UpdateHosts"]
             /\ UNCHANGED <<wres, lastDone>>
  /\ UNCHANGED <<heap, readerVars>>

\* The loop of RemoveClusterHost, lines 438-445: the index of the first host
\* with the address, 0 when there is none.
RECURSIVE FindHost(_, _, _)
FindHost(hosts, hostAddress, i) ==
  IF i > Len(hosts) THEN 0
  ELSE IF hostAddress = AddressString(hosts[i]) THEN i
  ELSE FindHost(hosts, hostAddress, i + 1)

\* Mutant: hosts[:i] followed by hosts[i:], the host is kept.
WithoutHostFromI(hosts, i) == SubSeq(hosts, 1, i - 1) \o SubSeq(hosts, i, Len(hosts))

\* ccHosts: hosts[:i] followed by hosts[i+1:].
WithoutHost(hosts, i) == SubSeq(hosts, 1, i - 1) \o SubSeq(hosts, i + 1, Len(hosts))

\* RemoveClusterHost(clusterName, hostAddress) up to the call of pc.UpdateHosts.
RemoveClusterHost(w, name, hostAddress) ==
  /\ UNCHANGED <<managerVars, registryVars, edgeVars>>
  /\ Call(w, [NoOp EXCEPT !.op = "RemoveClusterHost", !.name = name,
                          !.addr = hostAddress])
  /\ IF hostAddress = ""
     THEN /\ Return(w, "hostAddress is nil")
          /\ wl' = [wl EXCEPT ![w] = NoLocals]
     ELSE IF primaryClusters[name] = 0
     THEN /\ Return(w, "not found")
          /\ wl' = [wl EXCEPT ![w] = NoLocals]
     ELSE LET pc == primaryClusters[name]
              hosts == clusters[pcs[pc].cluster].hosts
              i == FindHost(hosts, hostAddress, 1)
          IN IF i = 0
             THEN /\ Return(w, "host not found")
                  /\ wl' = [wl EXCEPT ![w] = NoLocals]
             ELSE /\ wl' = [wl EXCEPT ![w] =
                              [NoLocals EXCEPT !.pc = pc, !.hosts = WithoutHost(hosts, i),
                                               !.before = hosts, !.since = Since(w)]]
                  /\ wpc' = [wpc EXCEPT ![w] = "UpdateHosts"]
                  /\ UNCHANGED <<wres, lastDone>>
  /\ UNCHANGED <<heap, readerVars>>

\* Mutant: the two configurations are compared as pointers, never equal.
DeepEqualPointers(a, b) == FALSE

\* reflect.DeepEqual(clusterConf, *(pcluster.configUsed)).
DeepEqual(a, b) == a = b

\* AddOrUpdatePrimaryCluster(cluster) up to the store of the new cluster
\* (loadCluster) or to the call of pcluster.UpdateCluster (updateCluster, which
\* builds the new cluster object and gives it the hosts of the current one).
AddOrUpdatePrimaryCluster(w, cluster) ==
  /\ UNCHANGED <<managerVars, registryVars, edgeVars>>
  /\ Call(w, [NoOp EXCEPT !.op = "AddOrUpdatePrimaryCluster",
                          !.name = cluster.Name, !.cfg = cluster])
  /\ LET pc == primaryClusters[cluster.Name]
     IN IF pc = 0
        THEN /\ wpc' = [wpc EXCEPT ![w] = "loadCluster"]
             /\ wl' = [wl EXCEPT ![w] = NoLocals]
             /\ UNCHANGED <<wres, lastDone, clusters>>
        ELSE IF ~pcs[pc].addedViaAPI
        THEN /\ Return(w, "false")
             /\ wl' = [wl EXCEPT ![w] = NoLocals]
             /\ UNCHANGED clusters
        ELSE IF DeepEqual(cluster, pcs[pc].configUsed)
        THEN /\ Return(w, "true")
             /\ wl' = [wl EXCEPT ![w] = NoLocals]
             /\ UNCHANGED clusters
        ELSE LET hosts == clusters[pcs[pc].cluster].hosts
             IN /\ clusters' = Append(clusters,
                                  SimpleInMemClusterUpdateHosts(NewCluster(cluster), hosts))
                /\ wl' = [wl EXCEPT ![w] =
                            [NoLocals EXCEPT !.pc = pc, !.cluster = Len(clusters) + 1]]
                /\ wpc' = [wpc EXCEPT ![w] = "UpdateCluster"]
                /\ UNCHANGED <<wres, lastDone>>
  /\ UNCHANGED <<primaryClusters, pcs, elems, elemCluster, lastHolder, readerVars>>

\* loadCluster(clusterConfig, true): NewCluster, Initialize and the store of
\* the new primaryCluster under the name; AddOrUpdatePrimaryCluster returns true.
loadCluster(w) ==
  /\ UNCHANGED <<managerVars, registryVars, edgeVars>>
  /\ wpc[w] = "loadCluster"
  /\ LET clusterConfig == wop[w].cfg
     IN /\ clusters' = Append(clusters, NewCluster(clusterConfig))
        /\ elems' = Append(elems, RcuElement(clusterConfig))
        /\ elemCluster' = Append(elemCluster, Len(clusters) + 1)
        /\ pcs' = Append(pcs, NewPrimaryCluster(Len(clusters) + 1, clusterConfig,
                                                TRUE, Len(elems) + 1))
        /\ lastHolder' = Append(lastHolder, NoHolder)
        /\ primaryClusters' = [primaryClusters EXCEPT ![clusterConfig.Name] = Len(pcs) + 1]
  /\ Return(w, "true")
  /\ UNCHANGED <<readerVars, wop, wl, ops>>

\* primaryCluster.UpdateCluster, lines 215-219: the lock and the assignments
\* of pc.cluster, pc.configUsed and pc.addedViaAPI.
UpdateClusterLock(w) ==
  /\ UNCHANGED <<managerVars, registryVars, edgeVars>>
  /\ wpc[w] = "UpdateCluster"
  /\ MayLock(wl[w].pc)
  /\ LET pc == wl[w].pc
     IN /\ pcs' = [pcs EXCEPT ![pc].updateLock = w,
                              ![pc].cluster = wl[w].cluster,
                              ![pc].configUsed = deepCopyCluster(wop[w].cfg),
                              ![pc].addedViaAPI = TRUE]
        /\ lastHolder' = [lastHolder EXCEPT ![pc] =
                            [w |-> w, op |-> wop[w].op, arg |-> wop[w].cfg.Hosts]]
  /\ wpc' = [wpc EXCEPT ![w] = "UpdateClusterStore"]
  /\ UNCHANGED <<primaryClusters, clusters, elems, elemCluster, readerVars,
                 wop, wl, wres, ops, lastDone>>

\* primaryCluster.UpdateCluster, line 220: the store of pc.configLock.Update.
UpdateClusterStore(w) ==
  /\ UNCHANGED <<managerVars, registryVars, edgeVars>>
  /\ wpc[w] = "UpdateClusterStore"
  /\ LET pc == wl[w].pc
     IN /\ elems' = Append(elems, RcuElement(pcs[pc].configUsed))
        /\ elemCluster' = Append(elemCluster, pcs[pc].cluster)
        /\ pcs' = [pcs EXCEPT ![pc].configLock = Len(elems) + 1]
        /\ wl' = [wl EXCEPT ![w].old = pcs[pc].configLock]
  /\ wpc' = [wpc EXCEPT ![w] = "UpdateClusterWait"]
  /\ UNCHANGED <<primaryClusters, clusters, lastHolder, readerVars, wop, wres, ops, lastDone>>

\* What primaryCluster.UpdateCluster returns for the error of configLock.Update.
UpdateClusterResult(err) == IF err = "Block" THEN "Block" ELSE "nil"

\* primaryCluster.UpdateCluster, lines 220-224: the end of pc.configLock.Update,
\* the deferred unlock and the return; updateCluster drops the error and
\* AddOrUpdatePrimaryCluster returns true.
UpdateClusterWait(w) ==
  /\ UNCHANGED <<managerVars, registryVars, edgeVars>>
  /\ wpc[w] = "UpdateClusterWait"
  /\ LET err == UpdateClusterResult(RcuWait(elems[wl[w].old].count))
     IN wl' = [wl EXCEPT ![w] = Returned(@, err)]
  /\ Return(w, "true")
  /\ pcs' = [pcs EXCEPT ![wl[w].pc].updateLock = Unlock(@)]
  /\ UNCHANGED <<primaryClusters, clusters, elems, elemCluster, lastHolder,
                 readerVars, wop, ops>>

\* RemovePrimaryCluster(clusterNames...): the call, before the loop.
RemovePrimaryCluster(w, clusterNames) ==
  /\ UNCHANGED <<managerVars, registryVars, edgeVars>>
  /\ Call(w, [NoOp EXCEPT !.op = "RemovePrimaryCluster", !.names = clusterNames])
  /\ wl' = [wl EXCEPT ![w] = [NoLocals EXCEPT !.i = 1, !.registered = Registered,
                                               !.since = Since(w)]]
  /\ wpc' = [wpc EXCEPT ![w] = "RemovePrimaryClusterLoop"]
  /\ UNCHANGED <<heap, readerVars, wres, lastDone>>

\* One turn of the loop of RemovePrimaryCluster, lines 366-380: the name is
\* deleted, or the call returns the error; after the last name it returns nil.
RemovePrimaryClusterLoop(w) ==
  /\ UNCHANGED <<managerVars, registryVars, edgeVars>>
  /\ wpc[w] = "RemovePrimaryClusterLoop"
  /\ LET clusterName == wop[w].names[wl[w].i]
         pc == primaryClusters[clusterName]
     IN IF pc = 0
        THEN /\ Return(w, "doesn't exist")
             /\ wl' = [wl EXCEPT ![w] = NoLocals]
             /\ UNCHANGED primaryClusters
        ELSE IF ~pcs[pc].addedViaAPI
        THEN /\ Return(w, "not addedViaAPI")
             /\ wl' = [wl EXCEPT ![w] = NoLocals]
             /\ UNCHANGED primaryClusters
        ELSE /\ primaryClusters' = [primaryClusters EXCEPT ![clusterName] = 0]
             /\ IF wl[w].i = Len(wop[w].names)
                THEN /\ Return(w, "nil")
                     /\ wl' = [wl EXCEPT ![w] = NoLocals]
                ELSE /\ wl' = [wl EXCEPT ![w].i = @ + 1]
                     /\ UNCHANGED <<wpc, wres, lastDone>>
  /\ UNCHANGED <<pcs, clusters, elems, elemCluster, lastHolder, readerVars, wop, ops>>

\* ------------------------------------------------------------- singleton

\* The arguments NewClusterManager is called with: a source address, and the
\* clusters with the hosts of each (no cluster, c1 with its host, c2 alone).
SourceAddrs == {"s1", "s2"}
ManagerInputs ==
  {[clusters |-> << >>, clusterMap |-> << >>],
   [clusters |-> <<InitConfig>>, clusterMap |-> <<[name |-> "c1", hosts |-> InitHosts]>>],
   [clusters |-> <<V2Cluster("c2", "LB_ROUNDROBIN", << >>)>>, clusterMap |-> << >>]}

\* Mutant: instanceMutex excludes nobody.
MayLockInstanceAlways(holder) == TRUE

\* Whether instanceMutex.Lock() can return.
MayLockInstance(holder) == holder = ""

\* NewClusterManager(sourceAddr, clusters, clusterMap, ...) up to the moment
\* it holds instanceMutex, line 125.
NewClusterManager(c, sourceAddr, in) ==
  /\ UNCHANGED <<registryVars, edgeVars>>
  /\ nc[c].pc = "idle"
  /\ calls < MaxCalls
  /\ MayLockInstance(instanceMutex)
  /\ calls' = calls + 1
  /\ instanceMutex' = c
  /\ nc' = [nc EXCEPT ![c] = [NoCall EXCEPT !.pc = "check", !.op = "NewClusterManager",
                                            !.sourceAddr = sourceAddr,
                                            !.clusters = in.clusters,
                                            !.clusterMap = in.clusterMap]]
  /\ UNCHANGED <<heap, readerVars, writerVars, clusterMangerInstance, managers>>

\* Lines 127-129: the instance there is, is returned, and the deferred Unlock
\* runs.
NewClusterManagerCheck(c) ==
  /\ UNCHANGED <<registryVars, edgeVars>>
  /\ nc[c].pc = "check"
  /\ IF clusterMangerInstance # 0
     THEN /\ nc' = [nc EXCEPT ![c].pc = "idle", ![c].result = clusterMangerInstance]
          /\ instanceMutex' = ""
     ELSE /\ nc' = [nc EXCEPT ![c].pc = "construct"]
          /\ UNCHANGED instanceMutex
  /\ UNCHANGED <<heap, readerVars, writerVars, clusterMangerInstance, managers, calls>>

\* Lines 131-160: a new clusterManager with empty maps becomes the instance,
\* AddOrUpdatePrimaryCluster registers each cluster (loadCluster, nothing is
\* registered yet) and UpdateClusterHosts(name, 0, hosts) gives the hosts to
\* each cluster of clusterMap that is registered, with no reader about; then
\* the deferred Unlock runs.
NewClusterManagerConstruct(c) ==
  /\ UNCHANGED <<registryVars, listener, xds>>
  /\ nc[c].pc = "construct"
  /\ LET new == Len(managers) + 1
         add == Len(nc[c].clusters) = 1
         cluster == nc[c].clusters[1]
         update == add /\ Len(nc[c].clusterMap) = 1
                       /\ nc[c].clusterMap[1].name = cluster.Name
         hosts == NewHosts(nc[c].clusterMap[1].hosts)
         config == [deepCopyCluster(cluster) EXCEPT !.Hosts = HostsConfig(hosts)]
         pc == Len(pcs) + 1
         cl == Len(clusters) + 1
         e == Len(elems) + 1
     IN /\ managers' = Append(managers, [sourceAddr |-> nc[c].sourceAddr])
        /\ clusterMangerInstance' = new
        /\ clusterMngAdapter' = new
        /\ protocolConnPool' = [p \in Protocols |-> [a \in Addresses |-> 0]]
        /\ primaryClusters' = [n \in Names |-> IF add /\ n = cluster.Name THEN pc ELSE 0]
        /\ IF add
           THEN /\ clusters' = Append(clusters,
                                  IF update
                                  THEN SimpleInMemClusterUpdateHosts(NewCluster(cluster), hosts)
                                  ELSE NewCluster(cluster))
                /\ elems' = IF update
                            THEN elems \o <<RcuElement(cluster), RcuElement(config)>>
                            ELSE Append(elems, RcuElement(cluster))
                /\ elemCluster' = IF update THEN elemCluster \o <<cl, cl>>
                                  ELSE Append(elemCluster, cl)
                /\ pcs' = Append(pcs, IF update
                                      THEN NewPrimaryCluster(cl, config, TRUE, e + 1)
                                      ELSE NewPrimaryCluster(cl, cluster, TRUE, e))
                /\ lastHolder' = Append(lastHolder, NoHolder)
           ELSE UNCHANGED <<clusters, elems, elemCluster, pcs, lastHolder>>
        /\ nc' = [nc EXCEPT ![c].pc = "idle", ![c].result = new]
        /\ instanceMutex' = ""
  /\ UNCHANGED <<writerVars, rpc, rsnap, stalePut, connPools, rq, calls>>

\* cm.Destory() up to the moment it holds instanceMutex, line 589.
Destory(c) ==
  /\ UNCHANGED <<registryVars, edgeVars>>
  /\ nc[c].pc = "idle"
  /\ calls < MaxCalls
  /\ MayLockInstance(instanceMutex)
  /\ calls' = calls + 1
  /\ instanceMutex' = c
  /\ nc' = [nc EXCEPT ![c] = [NoCall EXCEPT !.pc = "Destory", !.op = "Destory"]]
  /\ UNCHANGED <<heap, readerVars, writerVars, clusterMangerInstance, managers>>

\* Lines 591-593 and the deferred Unlock.
DestoryInstance(c) ==
  /\ UNCHANGED <<registryVars, edgeVars>>
  /\ nc[c].pc = "Destory"
  /\ clusterMangerInstance' = 0
  /\ instanceMutex' = ""
  /\ nc' = [nc EXCEPT ![c].pc = "idle"]
  /\ UNCHANGED <<heap, readerVars, writerVars, managers, calls>>

\* -------------------------------------------------------- load balancers

\* What every step of the registries leaves alone.
coreVars == <<heap, readerVars, writerVars, managerVars>>
programVars == <<coreVars, edgeVars>>

\* RegisterLBType(kind, factory).
RegisterLBType(kind, factory) ==
  /\ Len(registered) < MaxRegs
  /\ lbFactories' = [lbFactories EXCEPT ![kind] = factory]
  /\ registered' = Append(registered, [registry |-> "lb", key |-> kind,
                                       factory |-> factory, clusters |-> Len(clusters)])
  /\ UNCHANGED <<programVars, sessionFactories, ps, lbCall, hcCall>>

\* Mutant: the lookup knows the built-in kinds only.
LookupLBBuiltin(kind) ==
  IF BuiltinFactory(kind) # NoFactory THEN BuiltinFactory(kind) ELSE RoundRobinFactory

\* The factory NewLoadBalancer uses for a kind: the registered one, the
\* round-robin one when the kind is missing.
LookupLB(kind) ==
  IF lbFactories[kind] # NoFactory THEN lbFactories[kind] ELSE RoundRobinFactory

\* factory(ps): for headerLBCfg.newLB a headerLB with the key of the cfg and
\* a random load balancer over the same priority set.
NewLB(factory, prioritySet) ==
  [NoLb EXCEPT !.type = factory.type, !.key = factory.key, !.prioritySet = prioritySet]

\* NewLoadBalancer(kind, ps).
NewLoadBalancer(kind, id) ==
  /\ lbCall' = [NoLbCall EXCEPT !.op = "NewLoadBalancer", !.kind = kind, !.ps = id,
                                !.lb = NewLB(LookupLB(kind), id),
                                !.regs = Len(registered)]
  /\ UNCHANGED <<programVars, lbFactories, sessionFactories, registered, ps, hcCall>>

\* NewSubsetLoadBalancer(kind, ps, stats, subsetInfo): a subset load balancer
\* with the selector [version], base load balancers of the kind and the
\* fallback policy of subsetInfo.
NewSubsetLoadBalancer(kind, id, fallback) ==
  /\ lbCall' = [NoLbCall EXCEPT !.op = "NewSubsetLoadBalancer", !.kind = kind, !.ps = id,
                                !.lb = [NewLB(LookupLB(kind), id) EXCEPT
                                          !.subset = TRUE, !.fallback = fallback],
                                !.regs = Len(registered)]
  /\ UNCHANGED <<programVars, lbFactories, sessionFactories, registered, ps, hcCall>>

\* The health checker marks a host of a priority set healthy or unhealthy.
SetHealth(id, j) ==
  /\ ps' = [ps EXCEPT ![id][j].healthy = ~@]
  /\ UNCHANGED <<programVars, lbFactories, sessionFactories, registered, lbCall, hcCall>>

\* HostSet.HealthyHosts().
HealthyHosts(hosts) == SelectSeq(hosts, Health)

\* What the random and the round-robin load balancer may choose: a healthy
\* host, nil when there is none.
RandomChooseHost(hosts) ==
  IF HealthyHosts(hosts) = << >> THEN {NoLbHost}
  ELSE {hosts[j] : j \in {k \in 1..Len(hosts) : Health(hosts[k])}}

\* headers.Get(key): whether the key is there, and its value.
HasHeader(ctx, key) == ~ctx.nilHeaders /\ \E kv \in ctx.headers : kv[1] = key
Get(ctx, key) == (CHOOSE kv \in ctx.headers : kv[1] = key)[2]

\* Mutant: the loop keeps the last host of the name.
LastNamed(hosts, value) ==
  LET named == {j \in 1..Len(hosts) : Hostname(hosts[j]) = value}
  IN IF named = {} THEN NoLbHost
     ELSE hosts[CHOOSE j \in named : \A k \in named : k <= j]

\* The loop of headerLB.ChooseHost, lines 39-43: the first host of the name,
\* nil when the loop ends without one.
FirstNamed(hosts, value) ==
  LET named == {j \in 1..Len(hosts) : Hostname(hosts[j]) = value}
  IN IF named = {} THEN NoLbHost
     ELSE hosts[CHOOSE j \in named : \A k \in named : j <= k]

\* headerLB.ChooseHost(ctx), lines 35-48, over the hosts at priority 0: the
\* hosts it may return.
headerLBChooseHost(lb, hosts, ctx) ==
  IF HasHeader(ctx, lb.key)
       /\ FirstNamed(HealthyHosts(hosts), Get(ctx, lb.key)) # NoLbHost
  THEN {FirstNamed(HealthyHosts(hosts), Get(ctx, lb.key))}
  ELSE RandomChooseHost(hosts)

\* ChooseHost of a load balancer that is not a subset load balancer.
BaseChooseHost(lb, hosts, ctx) ==
  IF lb.type = "headerLB" THEN headerLBChooseHost(lb, hosts, ctx)
  ELSE RandomChooseHost(hosts)

\* Mutant: the subset is the whole host set.
SubsetHostsAll(hosts, version) == hosts

\* The sub host set of the selector [version] for a value.
SubsetHosts(hosts, version) == SelectSeq(hosts, LAMBDA h : h.version = version)

\* subsetLoadBalancer.ChooseHost(ctx): the base load balancer over the subset
\* the criteria of the request match; without a match the fallback policy.
SubsetChooseHost(lb, hosts, ctx) ==
  IF ctx.version # "" /\ SubsetHosts(hosts, ctx.version) # << >>
  THEN BaseChooseHost(lb, SubsetHosts(hosts, ctx.version), ctx)
  ELSE IF lb.fallback = "AnyEndpoint" THEN BaseChooseHost(lb, hosts, ctx)
  ELSE {NoLbHost}

\* lb.ChooseHost(ctx) on the load balancer the last call built.
LbChooseHost(ctx) ==
  /\ lbCall.lb # NoLb
  /\ LET lb == lbCall.lb
         hosts == ps[lb.prioritySet]
     IN \E host \in (IF lb.subset THEN SubsetChooseHost(lb, hosts, ctx)
                      ELSE BaseChooseHost(lb, hosts, ctx)) :
          lbCall' = [lbCall EXCEPT !.op = "ChooseHost", !.ctx = ctx, !.host = host]
  /\ UNCHANGED <<programVars, lbFactories, sessionFactories, registered, ps, hcCall>>

\* ----------------------------------------------------------- health check

\* RegisterSessionFactory(p, f), lines 32-34.
RegisterSessionFactory(p, f) ==
  /\ Len(registered) < MaxRegs
  /\ sessionFactories' = [sessionFactories EXCEPT ![p] = f]
  /\ registered' = Append(registered, [registry |-> "session", key |-> p,
                                       factory |-> f, clusters |-> Len(clusters)])
  /\ UNCHANGED <<programVars, lbFactories, ps, lbCall, hcCall>>

\* Mutant: the default session factory is used for every protocol.
SessionFactoryDefault(protocol) == TCPDialSessionFactory

\* Lines 40-44: the factory of the protocol, the TCP dial one when the map has
\* none.
SessionFactoryFor(protocol) ==
  IF sessionFactories[protocol] # NoFactory THEN sessionFactories[protocol]
  ELSE TCPDialSessionFactory

\* newHealthChecker(cfg, cluster, f): a health checker with the session factory.
newHealthChecker(cfg, f) == [sessionFactory |-> f]

\* CreateHealthCheck(cfg, cluster), lines 39-46.
CreateHealthCheck(cfg) ==
  /\ hcCall' = [NoHcCall EXCEPT !.op = "CreateHealthCheck", !.protocol = cfg.Protocol,
                                !.checker = newHealthChecker(cfg, SessionFactoryFor(cfg.Protocol)),
                                !.regs = Len(registered)]
  /\ UNCHANGED <<programVars, lbFactories, sessionFactories, registered, ps, lbCall>>

Next ==
  \/ \E r \in Readers, name \in Names : GetClusterSnapshot(r, name)
  \/ \E r \in Readers : GetClusterSnapshotLoad(r)
  \/ \E r \in Readers : PutClusterSnapshot(r)
  \/ \E w \in Writers, name \in Names, p \in Priorities, hs \in UpdateLists :
        UpdateClusterHosts(w, name, p, hs)
  \/ \E w \in Writers, name \in Names, p \in Priorities, hs \in AppendLists :
        AppendClusterHosts(w, name, p, hs)
  \/ \E w \in Writers, name \in Names, a \in RemoveAddrs : RemoveClusterHost(w, name, a)
  \/ \E w \in Writers : UpdateHostsLock(w)
  \/ \E w \in Writers : UpdateHostsStore(w)
  \/ \E w \in Writers : UpdateHostsWait(w)
  \/ \E w \in Writers, cfg \in AddConfigs : AddOrUpdatePrimaryCluster(w, cfg)
  \/ \E w \in Writers : loadCluster(w)
  \/ \E w \in Writers : UpdateClusterLock(w)
  \/ \E w \in Writers : UpdateClusterStore(w)
  \/ \E w \in Writers : UpdateClusterWait(w)
  \/ \E w \in Writers, ns \in RemoveLists : RemovePrimaryCluster(w, ns)
  \/ \E w \in Writers : RemovePrimaryClusterLoop(w)

Spec == Init /\ [][Next]_vars

\* Readers that get and put snapshots of c1 again and again, and one writer
\* that alternates UpdateClusterHosts between the two lists.
TheWriter == CHOOSE w \in Writers : \A v \in Writers : w <= v

AlternateUpdate ==
  \E hs \in AlternateLists :
    /\ hs # wop[TheWriter].hosts
    /\ UpdateClusterHosts(TheWriter, "c1", 0, hs)

NextAlternate ==
  \/ \E r \in Readers : GetClusterSnapshot(r, "c1")
  \/ \E r \in Readers : GetClusterSnapshotLoad(r)
  \/ \E r \in Readers : PutClusterSnapshot(r)
  \/ AlternateUpdate
  \/ UpdateHostsLock(TheWriter)
  \/ UpdateHostsStore(TheWriter)
  \/ UpdateHostsWait(TheWriter)

\* Every goroutine that can take its next step takes it in the end; a reader
\* that holds a snapshot puts it in the end.  Starting a call is not forced.
Fairness ==
  /\ \A r \in Readers : WF_vars(GetClusterSnapshotLoad(r))
  /\ \A r \in Readers : WF_vars(PutClusterSnapshot(r))
  /\ WF_vars(UpdateHostsLock(TheWriter))
  /\ WF_vars(UpdateHostsStore(TheWriter))
  /\ WF_vars(UpdateHostsWait(TheWriter))

LiveSpec == Init /\ [][NextAlternate]_vars /\ Fairness

\* The writer replaces the host of c1 by another one, or by none.
PoolUpdate ==
  /\ ops < MaxPoolOps
  /\ \E hs \in PoolLists : UpdateClusterHosts(TheWriter, "c1", 0, hs)

\* Readers that take a snapshot of c1, ask for connection pools through it and
\* put it, a writer that updates the hosts of c1, and the network.
NextPool ==
  \/ \E r \in Readers : GetClusterSnapshot(r, "c1")
  \/ \E r \in Readers : GetClusterSnapshotLoad(r)
  \/ \E r \in Readers : PutClusterSnapshot(r)
  \/ \E r \in Readers, protocol \in Protocols : ConnPoolForCluster(r, protocol)
  \/ \E r \in Readers : getActiveConnectionPoolChoose(r)
  \/ \E r \in Readers : getActiveConnectionPoolCreate(r)
  \/ \E r \in Readers : getActiveConnectionPoolWait(r)
  \/ \E p \in 1..Len(connPools) : PoolConnected(p)
  \/ PoolUpdate
  \/ UpdateHostsLock(TheWriter)
  \/ UpdateHostsStore(TheWriter)
  \/ UpdateHostsWait(TheWriter)

PoolSpec == Init /\ [][NextPool]_vars

\* A second cluster, and its host: another host at the address of the host of c1.
SecondCluster == V2Cluster("c2", "LB_RANDOM", << >>)
SecondHosts == <<HA2>>

\* The writer registers c2 and gives it its host.
PoolRegister ==
  \/ /\ primaryClusters[SecondCluster.Name] = 0
     /\ AddOrUpdatePrimaryCluster(TheWriter, SecondCluster)
  \/ /\ primaryClusters[SecondCluster.Name] # 0
     /\ UpdateClusterHosts(TheWriter, SecondCluster.Name, 0, SecondHosts)

\* Readers that take snapshots of c1 and of c2 and ask for connection pools
\* through them, while c2 is registered and gets a host of the address of the
\* host of c1.
NextShared ==
  \/ \E r \in Readers, name \in Names : GetClusterSnapshot(r, name)
  \/ \E r \in Readers : GetClusterSnapshotLoad(r)
  \/ \E r \in Readers : PutClusterSnapshot(r)
  \/ \E r \in Readers, protocol \in Protocols : ConnPoolForCluster(r, protocol)
  \/ \E r \in Readers : getActiveConnectionPoolChoose(r)
  \/ \E r \in Readers : getActiveConnectionPoolCreate(r)
  \/ \E r \in Readers : getActiveConnectionPoolWait(r)
  \/ \E p \in 1..Len(connPools) : PoolConnected(p)
  \/ PoolRegister
  \/ loadCluster(TheWriter)
  \/ UpdateHostsLock(TheWriter)
  \/ UpdateHostsStore(TheWriter)
  \/ UpdateHostsWait(TheWriter)

SharedPoolSpec == Init /\ [][NextShared]_vars

\* The writer changes the hosts of c1 or removes c1.
PoolMutate ==
  \/ \E hs \in PoolLists : UpdateClusterHosts(TheWriter, "c1", 0, hs)
  \/ \E hs \in AppendLists : AppendClusterHosts(TheWriter, "c1", 0, hs)
  \/ RemoveClusterHost(TheWriter, "c1", "a")
  \/ RemovePrimaryCluster(TheWriter, <<"c1">>)

TheReader == CHOOSE r \in Readers : TRUE

\* A reader that asks for connection pools through snapshots of c1, and a
\* writer that runs the operations on the hosts of c1 and removes c1.
NextLife ==
  \/ GetClusterSnapshot(TheReader, "c1")
  \/ GetClusterSnapshotLoad(TheReader)
  \/ PutClusterSnapshot(TheReader)
  \/ \E protocol \in Protocols : ConnPoolForCluster(TheReader, protocol)
  \/ getActiveConnectionPoolChoose(TheReader)
  \/ getActiveConnectionPoolCreate(TheReader)
  \/ getActiveConnectionPoolWait(TheReader)
  \/ \E p \in 1..Len(connPools) : PoolConnected(p)
  \/ PoolMutate
  \/ UpdateHostsLock(TheWriter)
  \/ UpdateHostsStore(TheWriter)
  \/ UpdateHostsWait(TheWriter)
  \/ RemovePrimaryClusterLoop(TheWriter)

PoolLifeSpec == Init /\ [][NextLife]_vars

\* A reader inside getActiveConnectionPool takes its next step in the end: the
\* lock of cm.mux is held for no longer than the creation of one pool and
\* every sleep ends.
PoolFairness ==
  \A r \in Readers :
    /\ WF_vars(getActiveConnectionPoolChoose(r))
    /\ WF_vars(getActiveConnectionPoolCreate(r))
    /\ WF_vars(getActiveConnectionPoolWait(r))

\* The readers and the network alone: the hosts of c1 stay as constructed.
NextRequests ==
  \/ \E r \in Readers : GetClusterSnapshot(r, "c1")
  \/ \E r \in Readers : GetClusterSnapshotLoad(r)
  \/ \E r \in Readers : PutClusterSnapshot(r)
  \/ \E r \in Readers, protocol \in Protocols : ConnPoolForCluster(r, protocol)
  \/ \E r \in Readers : getActiveConnectionPoolChoose(r)
  \/ \E r \in Readers : getActiveConnectionPoolCreate(r)
  \/ \E r \in Readers : getActiveConnectionPoolWait(r)
  \/ \E p \in 1..Len(connPools) : PoolConnected(p)

PoolLiveSpec == Init /\ [][NextRequests]_vars /\ PoolFairness

\* The same, with requests that may be cancelled while they are served.
NextCancel ==
  \/ NextRequests
  \/ \E r \in Readers : Cancel(r)

CancelSpec == Init /\ [][NextCancel]_vars

\* Callers of NewClusterManager and of Destory, after the first construction.
NextSingleton ==
  \/ \E c \in Callers, sourceAddr \in SourceAddrs, in \in ManagerInputs :
        NewClusterManager(c, sourceAddr, in)
  \/ \E c \in Callers : NewClusterManagerCheck(c)
  \/ \E c \in Callers : NewClusterManagerConstruct(c)
  \/ \E c \in Callers : Destory(c)
  \/ \E c \in Callers : DestoryInstance(c)

SingletonSpec == Init /\ [][NextSingleton]_vars

\* A cluster of some load balancer kind is created, before or after the kind
\* is registered.
NewLBCluster ==
  /\ primaryClusters["c2"] = 0
  /\ \E kind \in LbKinds : AddOrUpdatePrimaryCluster(TheWriter, V2Cluster("c2", kind, << >>))

\* A load balancer kind is registered and load balancers are built, while a
\* cluster is created.
NextRegistry ==
  \/ \E kind \in {headerKey}, factory \in LbFactories : RegisterLBType(kind, factory)
  \/ \E kind \in LbKinds, id \in PsIds : NewLoadBalancer(kind, id)
  \/ NewLBCluster
  \/ loadCluster(TheWriter)

RegistrySpec == Init /\ [][NextRegistry]_vars

\* Load balancers and subset load balancers of registered kinds are built and
\* asked for hosts, while the hosts of the first priority set change their
\* health.
NextLB ==
  \/ \E kind \in {headerKey}, factory \in LbFactories : RegisterLBType(kind, factory)
  \/ \E kind \in LbKinds, id \in PsIds : NewLoadBalancer(kind, id)
  \/ \E kind \in {headerKey}, fallback \in FallbackPolicies :
        NewSubsetLoadBalancer(kind, 1, fallback)
  \/ \E j \in 1..Len(ps[1]) : SetHealth(1, j)
  \/ \E ctx \in LbContexts : LbChooseHost(ctx)

LBSpec == Init /\ [][NextLB]_vars

\* Session factories are registered and health checkers are created.
NextHealth ==
  \/ \E p \in HcProtocols, f \in SessionFactories : RegisterSessionFactory(p, f)
  \/ \E p \in HcProtocols : CreateHealthCheck([Protocol |-> p])

HealthSpec == Init /\ [][NextHealth]_vars

\* ------------------------------------------------------------ properties

AddressSet(hosts) == {AddressString(hosts[i]) : i \in 1..Len(hosts)}
ConfigAddressSet(hcs) == {hcs[i].address : i \in 1..Len(hcs)}

\* The cluster object GetClusterSnapshot(name) reads in this state.
SnapshotCluster(name) == clusters[pcs[primaryClusters[name]].cluster]
\* The configuration GetClusterSnapshot(name) loads in this state.
SnapshotConfig(name) == elems[pcs[primaryClusters[name]].configLock].value

\* w's last call has returned, no call has returned since and none is running.
Quiet(w) ==
  /\ wpc[w] = "idle"
  /\ lastDone = w
  /\ \A w2 \in Writers : wpc[w2] = "idle"

Held(r) == rpc[r] = "holding"

\* C1: once UpdateClusterHosts(C, p, H) has returned nil on a registered
\* cluster and no other writer has run since, a snapshot of C exposes at
\* priority p exactly the addresses of H.
C1_UpdateClusterHostsAtPriority ==
  \A w \in Writers :
    (/\ Quiet(w)
     /\ wop[w].op = "UpdateClusterHosts"
     /\ wres[w] = "nil"
     /\ primaryClusters[wop[w].name] # 0)
    => AddressSet(HostsAt(SnapshotCluster(wop[w].name), wop[w].priority))
         = ConfigAddressSet(wop[w].hosts)

\* C2: every snapshot a reader holds is of one cluster generation: its
\* priority set, cluster info and load balancer are those of one cluster
\* object, and the configuration it holds a ticket on was stored for that
\* cluster object.
C2_SnapshotOneGeneration ==
  \A r \in Readers :
    Held(r) =>
      /\ rsnap[r].prioritySet = rsnap[r].clusterInfo
      /\ rsnap[r].clusterInfo = rsnap[r].loadbalancer
      /\ elemCluster[rsnap[r].config] = rsnap[r].prioritySet

\* C3: while a reader holds a snapshot, the hosts visible through the
\* snapshot's priority set do not change.
C3_SnapshotPinned ==
  [][\A r \in Readers :
       (Held(r) /\ rpc'[r] = "holding")
       => clusters'[rsnap[r].prioritySet].hostSets
            = clusters[rsnap[r].prioritySet].hostSets]_vars

\* C4: the reader count of every element of every RCU cell is the number of
\* snapshots that loaded it and were not put yet (so it is never negative),
\* whatever updates and removals happened since the load.
C4_ReaderCountIsTickets ==
  \A e \in 1..Len(elems) :
    elems[e].count = Cardinality({r \in Readers : Held(r) /\ rsnap[r].config = e})

\* C4 witness: a snapshot was put after its cell had been updated, the cluster
\* is removed and a reader still holds a ticket on an element that is no
\* longer the current one.
C4_Witness ==
  /\ stalePut
  /\ primaryClusters["c1"] = 0
  /\ \E r \in Readers :
       /\ Held(r)
       /\ rsnap[r].config # pcs[rsnap[r].value].configLock
       /\ elems[rsnap[r].config].count = 1

HostsCalls == {"UpdateClusterHosts", "AppendClusterHosts", "RemoveClusterHost"}

\* C5: pc.UpdateHosts and pc.UpdateCluster return nil only when the element
\* their Update replaced has no reader (and once they returned nil it never has
\* one again); they return Block exactly when it still has a reader at the end
\* of the wait.
C5_BlockIffReadersLeft ==
  /\ [](\A w \in Writers :
          (wpc[w] = "idle" /\ wl[w].err = "nil") => elems[wl[w].old].count = 0)
  /\ [][\A w \in Writers :
          (wpc[w] \in {"UpdateHostsWait", "UpdateClusterWait"} /\ wpc'[w] = "idle")
          => /\ wl'[w].err \in {"nil", "Block"}
             /\ wl'[w].err = "Block" <=> elems[wl[w].old].count > 0]_vars

\* C5 witness: one pc.UpdateHosts returned Block and the element it replaced
\* still has a reader; a pc.UpdateCluster returned nil.
C5_Witness ==
  \E w, w2 \in Writers :
    /\ wpc[w] = "idle" /\ wop[w].op \in HostsCalls
    /\ wl[w].err = "Block" /\ elems[wl[w].old].count > 0
    /\ wpc[w2] = "idle" /\ wop[w2].op = "AddOrUpdatePrimaryCluster"
    /\ wl[w2].err = "nil"

\* C6: when UpdateClusterHosts ended with Block and no writer took the lock
\* since, a GetClusterSnapshot that starts now sees the new hosts and the new
\* configuration.
C6_BlockStillPublishes ==
  \A w \in Writers :
    (/\ wpc[w] = "idle"
     /\ wop[w].op = "UpdateClusterHosts"
     /\ wl[w].err = "Block"
     /\ primaryClusters[wop[w].name] = wl[w].pc
     /\ lastHolder[wl[w].pc].w = w
     /\ pcs[wl[w].pc].updateLock = 0)
    => /\ SnapshotConfig(wop[w].name).Hosts = wop[w].hosts
       /\ HostsConfig(HostsAt(SnapshotCluster(wop[w].name), 0)) = wop[w].hosts

\* C6 witness: such a call, which changed the hosts, with the reader that
\* blocked it still holding the previous configuration.
C6_Witness ==
  \E w \in Writers :
    /\ wpc[w] = "idle"
    /\ wop[w].op = "UpdateClusterHosts"
    /\ wl[w].err = "Block"
    /\ primaryClusters[wop[w].name] = wl[w].pc
    /\ lastHolder[wl[w].pc].w = w
    /\ pcs[wl[w].pc].updateLock = 0
    /\ wop[w].hosts = <<HB, HA2>>
    /\ \E r \in Readers : Held(r) /\ rsnap[r].config = wl[w].old

\* C7: a reader can always take its next step: GetClusterSnapshot and
\* PutClusterSnapshot are enabled whatever the writers do or hold.
C7_ReadersNeverWait ==
  \A r \in Readers :
    /\ rpc[r] = "idle" => \A n \in Names : ENABLED GetClusterSnapshot(r, n)
    /\ rpc[r] = "load" => ENABLED GetClusterSnapshotLoad(r)
    /\ Held(r) => ENABLED PutClusterSnapshot(r)

\* C7 witness: a writer holds the lock at the end of its Update while the
\* element it replaced has a reader, and a reader is about to load the cell.
C7_Witness ==
  \E w \in Writers, r \in Readers :
    /\ wpc[w] = "UpdateHostsWait"
    /\ pcs[wl[w].pc].updateLock = w
    /\ elems[wl[w].old].count > 0
    /\ rpc[r] = "load"
    /\ rsnap[r].value = wl[w].pc

\* C8: with readers that get and put snapshots and one writer that alternates
\* UpdateClusterHosts between two lists, every call returns in the end.
C8_EveryCallReturns ==
  /\ \A w \in Writers : (wpc[w] # "idle") ~> (wpc[w] = "idle")
  /\ \A r \in Readers : (rpc[r] = "load") ~> Held(r)
  /\ \A r \in Readers : Held(r) ~> (rpc[r] = "idle")

\* C8 witness: the writer is in its second call, about to take the lock it
\* released in the first, while both readers hold snapshots.
C8_Witness ==
  /\ ops = 2
  /\ wpc[TheWriter] = "UpdateHosts"
  /\ wop[TheWriter].hosts = <<HA, HB, HC>>
  /\ \A r \in Readers : Held(r)

\* C9: when no call holds the lock of a primaryCluster and the last to hold
\* it was an UpdateClusterHosts, the hosts of the cluster, the hosts of
\* pc.configUsed and the hosts of the configuration in the RCU cell are all
\* the argument of that call.
C9_WritesTotallyOrdered ==
  \A p \in 1..Len(pcs) :
    (pcs[p].updateLock = 0 /\ lastHolder[p].op = "UpdateClusterHosts")
    => /\ HostsConfig(clusters[pcs[p].cluster].hosts) = lastHolder[p].arg
       /\ pcs[p].configUsed.Hosts = lastHolder[p].arg
       /\ elems[pcs[p].configLock].value.Hosts = lastHolder[p].arg

\* C9 witness: two UpdateClusterHosts calls on c1 with different lists have
\* both gone through pc.UpdateHosts and returned.
C9_Witness ==
  /\ \A w \in Writers :
       /\ wpc[w] = "idle"
       /\ wop[w].op = "UpdateClusterHosts"
       /\ wop[w].name = "c1"
       /\ wl[w].err \in {"nil", "Block"}
  /\ wop[1].hosts # wop[2].hosts
  /\ lastHolder[1].w = 1
  /\ lastHolder[1].arg = wop[1].hosts

\* C10: when no writer call is running, the Hosts of the configuration in a
\* registered cluster's RCU cell are the hosts of its priority set, in order
\* and with their metadata.
C10_ConfigHostsArePrioritySetHosts ==
  (\A w \in Writers : wpc[w] = "idle")
  => \A n \in Names :
       primaryClusters[n] # 0
       => SnapshotConfig(n).Hosts = HostsConfig(HostsAt(SnapshotCluster(n), 0))

C13_StaticClusterStays ==
  pcs[1].cluster = 1 => primaryClusters["c1"] = 1

\* C14: when RemovePrimaryCluster returns an error and no other writer has run
\* since the call, the registered names are those registered at the call.
C14_RemoveErrorChangesNothing ==
  [][\A w \in Writers :
       (/\ wpc[w] = "RemovePrimaryClusterLoop" /\ wpc'[w] = "idle"
        /\ wres'[w] # "nil" /\ Alone(w))
       => Registered' = wl[w].registered]_vars


\* The results with which a mutator reports an error.
Errors == {"not found", "hostAddress is nil", "host not found", "doesn't exist",
           "not addedViaAPI", "error", "false"}

C16_OtherPrioritiesKept ==
  [][\A w \in Writers :
       (UpdateHostsLock(w) /\ wop[w].op = "UpdateClusterHosts")
       => \A q \in Priorities \ {wop[w].priority} :
            HostsAt(clusters'[pcs[wl[w].pc].cluster], q)
              = HostsAt(clusters[pcs[wl[w].pc].cluster], q)]_vars


\* C17: when an AppendClusterHosts that ran with no other writer returns, the
\* hosts of the cluster (its list and its host set at priority 0) are the
\* hosts it had at the call followed by the new hosts.
C17_AppendIsAdditive ==
  [][\A w \in Writers :
       (/\ wpc[w] = "UpdateHostsWait" /\ wpc'[w] = "idle"
        /\ wop[w].op = "AppendClusterHosts" /\ Alone(w))
       => LET c == clusters'[pcs'[wl[w].pc].cluster]
              after == wl[w].before \o NewHosts(wop[w].hosts)
          IN c.hosts = after /\ HostsAt(c, 0) = after]_vars

\* C17 witness: an AppendClusterHosts that ran alone has returned and the
\* cluster has the host it had before, then the new one.
C17_Witness ==
  \E w \in Writers :
    /\ lastDone = w /\ wpc[w] = "idle" /\ ops = 1
    /\ wop[w].op = "AppendClusterHosts" /\ wres[w] = "nil"
    /\ clusters[pcs[wl[w].pc].cluster].hosts = NewHosts(<<HA, HA2>>)

\* The list without its i-th element.
Without(b, i) == [j \in 1..(Len(b) - 1) |-> IF j < i THEN b[j] ELSE b[j + 1]]

\* The indices of the hosts of a list that have the address.
Matches(b, addr) == {j \in 1..Len(b) : AddressString(b[j]) = addr}

\* C18: a RemoveClusterHost that finds no host with the address, or is given
\* the empty address, returns an error at once and changes no cluster object
\* and no RCU element; otherwise it goes on to pc.UpdateHosts, and when it
\* ran with no other writer the cluster's hosts at its return are those it had
\* at the call without the first one that has the address.
C18_RemoveFirstMatch ==
  [][\A w \in Writers :
       /\ \A n \in Names, a \in RemoveAddrs :
            (RemoveClusterHost(w, n, a) /\ primaryClusters[n] # 0)
            => LET b == clusters[pcs[primaryClusters[n]].cluster].hosts
               IN IF a = "" \/ Matches(b, a) = {}
                  THEN /\ wpc'[w] = "idle" /\ wres'[w] \in Errors
                       /\ UNCHANGED <<primaryClusters, pcs, clusters, elems>>
                  ELSE wpc'[w] = "UpdateHosts"
       /\ (/\ wpc[w] = "UpdateHostsWait" /\ wpc'[w] = "idle"
           /\ wop[w].op = "RemoveClusterHost" /\ Alone(w))
          => LET b == wl[w].before
                 m == Matches(b, wop[w].addr)
                 first == CHOOSE j \in m : \A k \in m : j <= k
             IN /\ m # {}
                /\ clusters'[pcs'[wl[w].pc].cluster].hosts = Without(b, first)]_vars

\* C18 witness: the cluster had two hosts with address a; RemoveClusterHost of
\* a, run alone, has returned and the second of the two is left.
C18_Witness ==
  \E w \in Writers :
    /\ lastDone = w /\ wpc[w] = "idle" /\ ops = 2
    /\ wop[w].op = "RemoveClusterHost" /\ wop[w].addr = "a" /\ wres[w] = "nil"
    /\ clusters[pcs[wl[w].pc].cluster].hosts = NewHosts(<<HA2>>)
    /\ \E v \in Writers : wop[v].op = "AppendClusterHosts"


\* The addresses that the arguments of w's last call name.
NamedAddresses(w) == ConfigAddressSet(wop[w].hosts)

\* C19: once a RemoveClusterHost that removed the only host with its address,
\* or an UpdateClusterHosts, has returned nil, and no writer call was made
\* since, and no other writer's call names the address, a snapshot taken now
\* has a load balancer that never chooses the removed host: no host with the
\* removed address, respectively only hosts of the new list.
C19_RemovedHostNeverChosen ==
  \A w \in Writers :
    (/\ wpc[w] = "idle" /\ wl[w].err = "nil" /\ wl[w].returned = ops
     /\ primaryClusters[wop[w].name] = wl[w].pc)
    => LET chosen == ChooseHost(LBInstance(Info(pcs[wl[w].pc].cluster)))
           others == UNION {NamedAddresses(v) : v \in Writers \ {w}}
       IN /\ (/\ wop[w].op = "RemoveClusterHost"
              /\ Cardinality(Matches(wl[w].before, wop[w].addr)) = 1
              /\ wop[w].addr \notin others)
             => \A h \in chosen : AddressString(h) # wop[w].addr
          /\ wop[w].op = "UpdateClusterHosts"
             => \A h \in chosen :
                  \/ AddressString(h) \in others
                  \/ \E j \in 1..Len(wop[w].hosts) : Config(h) = wop[w].hosts[j]


\* C20: a pool that ConnPoolForCluster returned had its CheckAndInit return
\* true during the call and is the pool stored, for the protocol of the call,
\* under the address of a host that ChooseHost gave during the call.
C20_ReturnedPoolIsReadyAndChosen ==
  \A r \in Readers :
    rq[r].result # 0
    => /\ rq[r].result \in rq[r].ready
       /\ \E a \in rq[r].chosen : protocolConnPool[rq[r].protocol][a] = rq[r].result

\* C20 witness: a call got, in its wait loop, the pool of the second of two
\* addresses it had chosen, the other pool still connecting.
C20_Witness ==
  \E r \in Readers :
    /\ rpc[r] = "holding" /\ rq[r].err = "nil"
    /\ rq[r].chosen = {"a", "b"}
    /\ rq[r].result = protocolConnPool[rq[r].protocol]["b"]
    /\ connPools[protocolConnPool[rq[r].protocol]["a"]].state = "connecting"


\* The waits of the retry loop, in milliseconds.
WaitSchedule == <<1, 10, 100, 1000>>

\* C21: a call of getActiveConnectionPool makes at most cycleTimes ChooseHost
\* calls; once a CheckAndInit was true it has returned that pool; its sleeps
\* are the first ones of 1, 10, 100, 1000 ms in this order; it returns 'no
\* health hosts' only after all four sleeps and polls; and it returns in the
\* end.
C21_RetryLoopIsBounded ==
  /\ [](\A r \in Readers :
          /\ rq[r].chooses <= cycleTimes
          /\ Len(rq[r].slept) <= Len(WaitSchedule)
          /\ rq[r].slept = SubSeq(WaitSchedule, 1, Len(rq[r].slept))
          /\ rq[r].ready # {} => (~InRequest(r) /\ rq[r].result \in rq[r].ready)
          /\ rq[r].err = "no health hosts"
             => (rq[r].slept = WaitSchedule /\ rq[r].chooses = cycleTimes))
  /\ \A r \in Readers : InRequest(r) ~> (rpc[r] = "holding")

\* C21 witness: a call has returned 'no health hosts' after five choices and
\* 1111 ms of sleep, while the other reader's call got a pool in its third wait.
C21_Witness ==
  \E r, o \in Readers :
    /\ rpc[r] = "holding" /\ rq[r].err = "no health hosts"
    /\ rq[r].chooses = 5 /\ rq[r].slept = <<1, 10, 100, 1000>>
    /\ rpc[o] = "holding" /\ rq[o].result # 0 /\ rq[o].slept = <<1, 10, 100>>


\* The key a pool was made for.
PoolKey(p) == <<connPools[p].protocol, AddressString(connPools[p].host)>>

\* The pool stored under a key, 0 when there is none.
StoredPool(key) == protocolConnPool[key[1]][key[2]]

\* C22: for every pair (protocol, address) at most one pool is ever created,
\* it is the one stored under the pair, and every call that remembers or
\* returns a pool of that address has this pool, whatever the cluster of its
\* snapshot.
C22_OnePoolPerAddress ==
  /\ \A p, q \in 1..Len(connPools) : PoolKey(p) = PoolKey(q) => p = q
  /\ \A p \in 1..Len(connPools) : StoredPool(PoolKey(p)) = p
  /\ \A r \in Readers :
       /\ rq[r].result # 0 => StoredPool(PoolKey(rq[r].result)) = rq[r].result
       /\ \A k \in 1..cycleTimes :
            rq[r].pools[k] # 0 => StoredPool(PoolKey(rq[r].pools[k])) = rq[r].pools[k]
  /\ \A r, o \in Readers :
       (/\ rq[r].result # 0 /\ rq[o].result # 0
        /\ rq[r].protocol = rq[o].protocol
        /\ rq[r].chosen \cap rq[o].chosen # {}
        /\ Cardinality(rq[r].chosen) = 1 /\ Cardinality(rq[o].chosen) = 1)
       => rq[r].result = rq[o].result

\* Two calls, one through a snapshot of c1 and one through a snapshot of c2,
\* both chose a host of address a, and both returned the same pool.
C22_Witness ==
  \E r, o \in Readers :
    /\ rpc[r] = "holding" /\ rpc[o] = "holding"
    /\ primaryClusters["c2"] # 0
    /\ rsnap[r].value = primaryClusters["c1"]
    /\ rsnap[o].value = primaryClusters["c2"]
    /\ rq[r].chosen = {"a"} /\ rq[o].chosen = {"a"}
    /\ rq[r].result # 0 /\ rq[r].result = rq[o].result
    /\ Len(connPools) = 1
\* C23: a pool comes to be stored under (protocol, address) only in the step
\* of a ConnPoolForCluster call of that protocol that chose a host of that
\* address, and a stored pool stays stored under its key, the same pool, in
\* every step, those of the operations on hosts and clusters included.
C23_PoolsAreLazyAndKept ==
  [][\A protocol \in Protocols, a \in Addresses :
       LET pool == protocolConnPool[protocol][a]
       IN /\ pool # 0 => /\ protocolConnPool'[protocol][a] = pool
                         /\ PoolKey(pool) = <<protocol, a>>
                         /\ connPools'[pool].host = connPools[pool].host
          /\ (pool = 0 /\ protocolConnPool'[protocol][a] # 0)
               => \E r \in Readers : /\ getActiveConnectionPoolCreate(r)
                                     /\ rq[r].protocol = protocol
                                     /\ a \in rq[r].chosen
          /\ Len(connPools') # Len(connPools)
               => \E r \in Readers : getActiveConnectionPoolCreate(r)]_vars

\* The pools of a and b are stored, c1 has since lost host a and has been
\* removed, and no call is in progress.
C23_Witness ==
  /\ protocolConnPool["SofaRpc"]["a"] # 0
  /\ protocolConnPool["SofaRpc"]["b"] # 0
  /\ primaryClusters["c1"] = 0
  /\ ops = MaxOps
  /\ \A r \in Readers : rpc[r] = "idle"
  /\ wpc[TheWriter] = "idle"
\* C24: once the token of the request is cancelled, the next turn of the
\* retry loop, a host choice or a wait, returns a cancellation error.
C24_CancelledLoopReturns ==
  [][\A r \in Readers :
       (/\ rq[r].cancelled
        /\ getActiveConnectionPoolChoose(r) \/ getActiveConnectionPoolWait(r))
       => (rpc'[r] = "holding" /\ rq'[r].err = "cancelled")]_vars
\* C25: a NewClusterManager call that finds an instance returns it and
\* applies none of its clusters and hosts; an instance is constructed only
\* when there is none, and then it is a new one, holding what the call was
\* given, and the call returns it; the instance goes away only by Destory.
C25_Singleton ==
  [][/\ \A c \in Callers :
          /\ (NewClusterManagerCheck(c) /\ clusterMangerInstance # 0)
               => /\ nc'[c].pc = "idle"
                  /\ nc'[c].result = clusterMangerInstance
                  /\ UNCHANGED <<heap, managers, clusterMangerInstance, protocolConnPool>>
          /\ NewClusterManagerConstruct(c)
               => /\ clusterMangerInstance = 0
                  /\ clusterMangerInstance' \notin {0} \cup (1..Len(managers))
                  /\ nc'[c].result = clusterMangerInstance'
                  /\ managers'[clusterMangerInstance'].sourceAddr = nc[c].sourceAddr
                  /\ {n \in Names : primaryClusters'[n] # 0}
                       = {nc[c].clusters[k].Name : k \in 1..Len(nc[c].clusters)}
     /\ Len(managers') # Len(managers)
          => \E c \in Callers : NewClusterManagerConstruct(c)
     /\ clusterMangerInstance' # clusterMangerInstance
          => \E c \in Callers : NewClusterManagerConstruct(c) \/ DestoryInstance(c)]_vars

\* After a Destory one caller constructed the second instance, with c2 alone,
\* and the other caller, who passed c1 and its host, got that instance too.
C25_Witness ==
  \E c, d \in Callers :
    /\ c # d
    /\ Len(managers) = 2
    /\ clusterMangerInstance = 2
    /\ nc[c].pc = "idle" /\ nc[c].op = "NewClusterManager" /\ nc[c].result = 2
    /\ nc[d].pc = "idle" /\ nc[d].op = "NewClusterManager" /\ nc[d].result = 2
    /\ Len(nc[d].clusters) = 1 /\ nc[d].clusters[1].Name = "c1"
    /\ primaryClusters["c1"] = 0 /\ primaryClusters["c2"] # 0

\* C26: a NewClusterManager call that finds an instance built with another
\* sourceAddr panics.
C26_ConflictingSourceAddrPanics ==
  [][\A c \in Callers :
       (/\ NewClusterManagerCheck(c)
        /\ clusterMangerInstance # 0
        /\ nc[c].sourceAddr # managers[clusterMangerInstance].sourceAddr)
       => nc'[c].pc = "panic"]_vars
\* The registrations of a registry for a key among the first n made.
RegistrationsOf(registry, key, n) ==
  {k \in 1..n : registered[k].registry = registry /\ registered[k].key = key}

\* The last of a set of registrations.
Latest(regs) == registered[CHOOSE k \in regs : \A j \in regs : j <= k]

\* C27: NewLoadBalancer(kind, ps) of a kind that was registered returns the
\* load balancer of the factory registered last for the kind, over ps,
\* whatever clusters were created before or after; and a registered cluster
\* reports the load balancer kind of its configuration.
C27_RegisteredFactoryIsUsed ==
  /\ lbCall.op = "NewLoadBalancer"
       => LET regs == RegistrationsOf("lb", lbCall.kind, lbCall.regs)
          IN regs # {}
               => /\ lbCall.lb.type = Latest(regs).factory.type
                  /\ lbCall.lb.key = Latest(regs).factory.key
                  /\ lbCall.lb.prioritySet = lbCall.ps
                  /\ ~lbCall.lb.subset
  /\ \A n \in Names :
       primaryClusters[n] # 0
         => SnapshotCluster(n).info.lbType = pcs[primaryClusters[n]].configUsed.LbType

\* c2 was created with the kind HeaderKey, the kind was registered after
\* that, and NewLoadBalancer(HeaderKey, the second priority set) gave a headerLB.
C27_Witness ==
  /\ lbCall.op = "NewLoadBalancer" /\ lbCall.kind = headerKey /\ lbCall.ps = 2
  /\ lbCall.lb.type = "headerLB" /\ lbCall.lb.prioritySet = 2
  /\ lbCall.regs = 1
  /\ registered[1].clusters = 2
  /\ primaryClusters["c2"] # 0
  /\ SnapshotCluster("c2").info.lbType = headerKey

\* The step in which ChooseHost of the load balancer returned.
ChoseHost == lbCall' # lbCall /\ lbCall'.op = "ChooseHost"

\* The positions of the healthy hosts whose hostname is the value the
\* headers of the request have under the key.
HealthyNamed(hosts, ctx, key) ==
  {j \in 1..Len(hosts) :
     /\ hosts[j].healthy
     /\ ~ctx.nilHeaders
     /\ \E kv \in ctx.headers : kv[1] = key /\ kv[2] = hosts[j].hostname}

\* C28: headerLB.ChooseHost returns the first healthy host at priority 0 whose
\* hostname is the value of the header under the key, when there is one; in
\* every other case a choice of the random load balancer; and no host that
\* is unhealthy.
C28_HeaderLBChoosesFirstHealthyNamed ==
  [][(ChoseHost /\ lbCall'.lb.type = "headerLB" /\ ~lbCall'.lb.subset)
       => LET hosts == ps[lbCall'.lb.prioritySet]
              named == HealthyNamed(hosts, lbCall'.ctx, lbCall'.lb.key)
          IN /\ named # {}
                  => lbCall'.host = hosts[CHOOSE j \in named : \A k \in named : j <= k]
             /\ named = {} => lbCall'.host \in RandomChooseHost(hosts)
             /\ lbCall'.host # NoLbHost => lbCall'.host.healthy]_vars

\* The first host named e1 is unhealthy, and the headerLB returned the second
\* one for the header hostname: e1.
C28_Witness ==
  /\ lbCall.op = "ChooseHost" /\ lbCall.lb.type = "headerLB" /\ ~lbCall.lb.subset
  /\ lbCall.ctx.headers = {<<"hostname", "e1">>}
  /\ ~ps[1][1].healthy
  /\ lbCall.host = ps[1][4]
  /\ lbCall.host.hostname = "e1"

\* C29: a subset load balancer asked with criteria that match a subset
\* returns a host of that subset or none: with a headerLB as base, a header
\* that names a healthy host of the subset yields a host of that name, and a
\* header that names a host outside the subset never yields a host of that name.
C29_SubsetLBStaysInSubset ==
  [][(ChoseHost /\ lbCall'.lb.subset /\ lbCall'.ctx.version # "")
       => LET hosts == ps[lbCall'.lb.prioritySet]
              ctx == lbCall'.ctx
              host == lbCall'.host
              subset == {j \in 1..Len(hosts) : hosts[j].version = ctx.version}
              named == HealthyNamed(hosts, ctx, lbCall'.lb.key) \cap subset
          IN subset # {}
               => /\ host = NoLbHost \/ \E j \in subset : host = hosts[j]
                  /\ (lbCall'.lb.type = "headerLB" /\ named # {})
                       => \E j \in named : host = hosts[j]
                  /\ \A kv \in ctx.headers :
                       (\A j \in subset : hosts[j].hostname # kv[2])
                         => host.hostname # kv[2]]_vars

\* With the criterion version 1.0 and the header hostname: e3, a healthy host
\* outside the subset, the subset load balancer over headerLB returned e5.
C29_Witness ==
  /\ lbCall.op = "ChooseHost" /\ lbCall.lb.subset /\ lbCall.lb.type = "headerLB"
  /\ lbCall.ctx.version = "1.0"
  /\ lbCall.ctx.headers = {<<"hostname", "e3">>}
  /\ ps[1][2].healthy /\ ps[1][2].hostname = "e3"
  /\ lbCall.host.hostname = "e5"

\* C30: CreateHealthCheck gives the health checker the session factory
\* registered last for the protocol of the configuration, and the TCP dial
\* session factory when none was registered; it returns a health checker for
\* every protocol.
C30_SessionFactoryOfProtocol ==
  hcCall.op = "CreateHealthCheck"
    => LET regs == RegistrationsOf("session", hcCall.protocol, hcCall.regs)
       IN /\ hcCall.checker.sessionFactory # NoFactory
          /\ regs # {} => hcCall.checker.sessionFactory = Latest(regs).factory
          /\ regs = {} => hcCall.checker.sessionFactory = TCPDialSessionFactory

\* Two factories were registered for SofaRpc, one after the other, and the
\* health checker created then has the second.
C30_Witness ==
  /\ hcCall.op = "CreateHealthCheck" /\ hcCall.protocol = "SofaRpc" /\ hcCall.regs = 2
  /\ registered[1].key = "SofaRpc" /\ registered[2].key = "SofaRpc"
  /\ registered[1].factory # registered[2].factory
  /\ hcCall.checker.sessionFactory = registered[2].factory
\* C31: when ChooseHost gives nil in a turn of the first loop, the call
\* returns in that turn, the nil pool and an error: no pool is created, no
\* wait is made and no remembered pool is returned.
C31_NilHostReturnsAtOnce ==
  [][\A r \in Readers :
       (getActiveConnectionPoolChoose(r) /\ ChooseHost(rsnap[r].loadbalancer) = {})
       => /\ rpc'[r] = "holding"
          /\ rq'[r].result = 0
          /\ rq'[r].err = "ChooseHost is nil"
          /\ rq'[r].chooses = rq[r].chooses + 1
          /\ rq'[r].slept = << >>
          /\ UNCHANGED <<connPools, protocolConnPool>>]_vars

\* A call chose host a twice, remembered its pool, and then ChooseHost gave
\* nil: the call returned the error although the pool of a is ready by now.
C31_Witness ==
  \E r \in Readers :
    /\ rpc[r] = "holding"
    /\ rq[r].err = "ChooseHost is nil" /\ rq[r].result = 0
    /\ rq[r].chooses = 3 /\ rq[r].chosen = {"a"}
    /\ rq[r].slept = << >>
    /\ protocolConnPool["SofaRpc"]["a"] # 0
    /\ connPools[protocolConnPool["SofaRpc"]["a"]].state = "ready"
\* The pools a call has remembered.
Remembered(q) == {q.pools[k] : k \in 1..cycleTimes} \ {0}

\* C32: when a call polls, the pool of every host it chose is among the
\* pools it remembered, and the poll that ends the call with 'no health
\* hosts' finds the pool of no chosen host ready.
C32_ChosenPoolsAreRepolled ==
  [][\A r \in Readers :
       getActiveConnectionPoolWait(r)
       => \A a \in rq[r].chosen :
            LET pool == protocolConnPool[rq[r].protocol][a]
            IN /\ pool \in Remembered(rq[r])
               /\ rq'[r].err = "no health hosts" => ~CheckAndInit(pool)]_vars

\* Two writers that mutate the hosts of c1, with no reader in the way: each
\* appends one host, or removes the host the cluster starts with.
MutateLists == {<<HB>>, <<HC>>}

NextMutate ==
  \/ \E w \in Writers, hs \in MutateLists : AppendClusterHosts(w, "c1", 0, hs)
  \/ \E w \in Writers : RemoveClusterHost(w, "c1", "a")
  \/ \E w \in Writers : UpdateHostsLock(w)
  \/ \E w \in Writers : UpdateHostsStore(w)
  \/ \E w \in Writers : UpdateHostsWait(w)

MutateSpec == Init /\ [][NextMutate]_vars

\* Every writer has made a host mutation of c1 that returned nil, and none
\* is running.
BothMutated ==
  \A w \in Writers :
    /\ wpc[w] = "idle" /\ wres[w] = "nil"
    /\ wop[w].name = "c1"
    /\ wop[w].op \in {"AppendClusterHosts", "RemoveClusterHost"}

\* C33: when an AppendClusterHosts and another AppendClusterHosts or a
\* RemoveClusterHost of another address have both returned nil on c1, the
\* host list of c1 has the hosts of every append and lacks the removed one.
C33_NoLostHostUpdate ==
  (ops = MaxOps /\ BothMutated)
  => \A w \in Writers :
       /\ wop[w].op = "AppendClusterHosts"
          => ConfigAddressSet(wop[w].hosts) \subseteq AddressSet(SnapshotCluster("c1").hosts)
       /\ (/\ wop[w].op = "RemoveClusterHost"
           /\ \A v \in Writers : wop[w].addr \notin ConfigAddressSet(wop[v].hosts))
          => wop[w].addr \notin AddressSet(SnapshotCluster("c1").hosts)

\* C34: when an UpdateClusterHosts of c1 has returned nil and an
\* AddOrUpdatePrimaryCluster of c1 has returned true, these being the only
\* calls made and none running, the cluster a new snapshot of c1 reads has
\* exactly the hosts of the host update.
C34_ReplaceKeepsHosts ==
  \A w, v \in Writers :
    (/\ ops = 2 /\ wpc[w] = "idle" /\ wpc[v] = "idle"
     /\ wop[w].op = "UpdateClusterHosts" /\ wop[w].name = "c1" /\ wres[w] = "nil"
     /\ wop[v].op = "AddOrUpdatePrimaryCluster" /\ wop[v].name = "c1"
     /\ wres[v] = "true")
    => AddressSet(SnapshotCluster("c1").hosts) = ConfigAddressSet(wop[w].hosts)

\* C35: no step changes the configuration of an element that was stored in
\* an RCU cell, so the configuration a reader holds stays as it was while the
\* reader holds it; the store of a host update and of a config update puts a
\* new element in the cell of its primaryCluster.
C35_PublishedConfigIsImmutable ==
  [][/\ Len(elems') >= Len(elems)
     /\ \A e \in 1..Len(elems) : elems'[e].value = elems[e].value
     /\ \A r \in Readers :
          (Held(r) /\ rpc'[r] = "holding")
          => /\ rsnap'[r].config = rsnap[r].config
             /\ elems'[rsnap'[r].config].value = elems[rsnap[r].config].value
     /\ \A w \in Writers :
          (UpdateHostsStore(w) \/ UpdateClusterStore(w))
          => /\ Len(elems') = Len(elems) + 1
             /\ pcs'[wl[w].pc].configLock = Len(elems')
             /\ elems'[Len(elems')].value = pcs'[wl[w].pc].configUsed]_vars

\* A reader holds a configuration of c1 that two later updates, a host update
\* and a config update, have replaced: it still has the hosts and the load
\* balancer kind it was stored with.
C35_Witness ==
  \E r \in Readers :
    /\ Held(r) /\ rsnap[r].value = primaryClusters["c1"]
    /\ elems[rsnap[r].config].value = V2Cluster("c1", "LB_RANDOM", <<HA>>)
    /\ SnapshotConfig("c1").Hosts # <<HA>>
    /\ SnapshotConfig("c1").LbType # "LB_RANDOM"

\* Readers that also call ConnPoolForCluster and TCPConnForCluster with a
\* snapshot they did not get from GetClusterSnapshot.
NextForeign ==
  \/ NextRequests
  \/ \E r \in Readers, protocol \in Protocols, s \in OtherSnapshots :
        ConnPoolForClusterOther(r, protocol, s)
  \/ \E r \in Readers, s \in OtherSnapshots \cup {"held"} : TCPConnForCluster(r, s)

ForeignSpec == Init /\ [][NextForeign]_vars

\* C36: a ConnPoolForCluster or TCPConnForCluster with a nil or foreign
\* snapshot returns (the caller is where it was, with a nil pool or empty
\* connection data) without a panic, without a ChooseHost and without a new
\* pool.
C36_OtherSnapshotReturnsNil ==
  [][\A r \in Readers, s \in OtherSnapshots :
       ((\E protocol \in Protocols : ConnPoolForClusterOther(r, protocol, s))
        \/ TCPConnForCluster(r, s))
       => /\ rpc'[r] = rpc[r]
          /\ rq'[r].err # "panic"
          /\ rq'[r].result = 0 /\ rq'[r].host = NoHost
          /\ rq'[r].chooses = 0
          /\ UNCHANGED <<connPools, protocolConnPool>>]_vars

\* ------------------------------------------------------------- listener

\* The connections a listener accepts in a run.
MaxAccepts == 5

\* The listener configurations: bound to a port or not, with an inherited
\* listener or without.
ListenerConfigs == [BindToPort : BOOLEAN, InheritListener : BOOLEAN]

\* What l.rawl.Accept() can return when the deadline has passed: an
\* *net.OpError of the poller's timeout, which is a timeout and temporary.
DeadlineError == AcceptError("OpError", TRUE, TRUE)

\* What it returns when l.rawl was closed: an *net.OpError that is neither.
ClosedError == AcceptError("OpError", FALSE, FALSE)

\* What it can return otherwise: a connection, an *net.OpError that is
\* temporary (no file descriptor left), or an error of another type.
AcceptResults ==
  {NoAcceptError, AcceptError("OpError", FALSE, TRUE),
   AcceptError("other", FALSE, FALSE)}

\* The results of l.rawl.Accept() in the state of the listener.
Accept == IF listener.closed THEN {ClosedError}
          ELSE IF listener.deadline THEN {DeadlineError}
          ELSE AcceptResults

\* NewListener(lc), lines 46-63.
NewListener(lc) ==
  /\ listener.pc = "none"
  /\ listener' = [NoListener EXCEPT !.pc = "new", !.bindToPort = lc.BindToPort,
                                    !.rawl = lc.InheritListener]
  /\ UNCHANGED <<coreVars, registryVars, clusterMngAdapter, xds>>

\* Start up to the accept loop, lines 81-97: nothing when the listener is not
\* bound to a port; l.listen when there is no inherited listener, and the
\* exit of the process (Fatalf) when it fails.
Start(listenOk) ==
  /\ listener.pc = "new"
  /\ listener' =
       IF ~listener.bindToPort THEN [listener EXCEPT !.pc = "returned"]
       ELSE IF listener.rawl THEN [listener EXCEPT !.pc = "accepting"]
       ELSE IF listenOk THEN [listener EXCEPT !.pc = "accepting", !.rawl = TRUE]
       ELSE [listener EXCEPT !.pc = "fatal"]
  /\ UNCHANGED <<coreVars, registryVars, clusterMngAdapter, xds>>

\* Whether the loop returns on the error of l.accept, lines 99-118: on a
\* net.Error that is a timeout; on an *net.OpError unless it is both a
\* timeout and temporary; on no other error.  An *net.OpError is a net.Error.
StopsAccepting(err) ==
  IF err.type = "OpError" /\ err.timeout THEN TRUE
  ELSE IF err.type = "OpError" THEN ~(err.timeout /\ err.temporary)
  ELSE FALSE

\* One turn of the accept loop, lines 98-119, with the result of
\* l.rawl.Accept(): a connection goes to OnAccept in a goroutine of its own.
accept(res) ==
  /\ listener.pc = "accepting"
  /\ res = NoAcceptError => listener.accepted < MaxAccepts
  /\ listener' =
       IF res = NoAcceptError
       THEN [listener EXCEPT !.accepted = @ + 1, !.err = res]
       ELSE [listener EXCEPT !.err = res,
                             !.pc = IF StopsAccepting(res) THEN "returned"
                                    ELSE "accepting"]
  /\ UNCHANGED <<coreVars, registryVars, clusterMngAdapter, xds>>

\* Stop(), lines 123-125: l.rawl.SetDeadline(time.Now()); on a nil l.rawl
\* SetDeadline returns EINVAL.
Stop ==
  /\ listener.pc # "none"
  /\ listener.pc # "fatal"
  /\ listener' = IF listener.rawl
                 THEN [listener EXCEPT !.deadline = TRUE, !.stopErr = "nil"]
                 ELSE [listener EXCEPT !.stopErr = "EINVAL"]
  /\ UNCHANGED <<coreVars, registryVars, clusterMngAdapter, xds>>

\* Close(lctx), lines 163-166: l.rawl.Close(); EINVAL on a nil l.rawl.
Close ==
  /\ listener.pc # "none"
  /\ listener.pc # "fatal"
  /\ listener' = IF listener.rawl
                 THEN [listener EXCEPT !.closed = TRUE, !.stopErr = "nil"]
                 ELSE [listener EXCEPT !.stopErr = "EINVAL"]
  /\ UNCHANGED <<coreVars, registryVars, clusterMngAdapter, xds>>

NextListener ==
  \/ \E lc \in ListenerConfigs : NewListener(lc)
  \/ \E listenOk \in BOOLEAN : Start(listenOk)
  \/ \E res \in Accept : accept(res)
  \/ Stop
  \/ Close

ListenerSpec == Init /\ [][NextListener]_vars

\* C37: a turn of the accept loop that got an error ends the loop exactly
\* when the error is a timeout or an *net.OpError that is not temporary; after
\* a temporary error and after an error of another type the loop goes on.
C37_StopsOnlyOnNonRecoverable ==
  [][\A res \in Accept :
       (accept(res) /\ res # NoAcceptError)
       => (listener'.pc = "returned"
           <=> (res.timeout \/ (res.type = "OpError" /\ ~res.temporary)))]_vars

\* ------------------------------------------------------ endpoint updates

\* A ClusterLoadAssignment and one of its endpoint groups.
LoadAssignment(name, groups) == [ClusterName |-> name, Endpoints |-> groups]
Endpoints(addrs) == [Priority |-> 0, LbEndpoints |-> addrs]

\* The load assignments delivered: none, one group for c1, a group for a name
\* that is not registered followed by one for c1, two groups for c1, and a
\* load assignment without a group.
XdsInputs ==
  {<< >>,
   <<LoadAssignment("c1", <<Endpoints(<<"b">>)>>)>>,
   <<LoadAssignment("c2", <<Endpoints(<<"a">>)>>),
     LoadAssignment("c1", <<Endpoints(<<"b">>)>>)>>,
   <<LoadAssignment("c1", <<Endpoints(<<"a", "c">>), Endpoints(<< >>)>>)>>,
   <<LoadAssignment("c1", << >>)>>}

\* ConvertEndpointsConfig(&endpoints): a v2.Host for each endpoint of the group.
ConvertEndpointsConfig(group) ==
  [k \in 1..Len(group.LbEndpoints) |->
     [address |-> group.LbEndpoints[k], metadata |-> "v1"]]

RECURSIVE Groups(_)
\* The number of endpoint groups of a list of load assignments.
Groups(las) == IF las = << >> THEN 0
               ELSE Len(Head(las).Endpoints) + Groups(Tail(las))

\* ConvertUpdateEndpoints(loadAssignments), line 177: errGlobal is nil.
ConvertUpdateEndpoints(las) ==
  /\ xds.pc = "idle"
  /\ xds' = [NoXds EXCEPT !.pc = "loop", !.rest = las, !.total = Groups(las)]
  /\ UNCHANGED <<coreVars, registryVars, listener, clusterMngAdapter>>

\* The heads of the two loops, lines 179-193 and 205: the next endpoint group
\* of the current load assignment is converted and the adapter is looked at,
\* errGlobal being set when it is nil; without a group left the next load
\* assignment is taken; without one left errGlobal is returned.
ConvertUpdateEndpointsNext ==
  /\ xds.pc = "loop"
  /\ xds' =
       IF xds.groups # << >>
       THEN [xds EXCEPT !.hosts = ConvertEndpointsConfig(Head(xds.groups)),
                        !.groups = Tail(xds.groups),
                        !.errGlobal = IF clusterMngAdapter = 0
                                      THEN "clusterMngAdapter nil" ELSE @,
                        !.base = ops,
                        !.pc = "call"]
       ELSE IF xds.rest # << >>
       THEN [xds EXCEPT !.name = Head(xds.rest).ClusterName,
                        !.groups = Head(xds.rest).Endpoints,
                        !.rest = Tail(xds.rest)]
       ELSE [xds EXCEPT !.pc = "returned"]
  /\ UNCHANGED <<coreVars, registryVars, listener, clusterMngAdapter>>

\* Line 195 with a nil adapter: TriggerClusterHostUpdate is called on the nil
\* pointer and has no cluster manager to reach; the goroutine panics.
TriggerClusterHostUpdateNil ==
  /\ xds.pc = "call"
  /\ clusterMngAdapter = 0
  /\ xds' = [xds EXCEPT !.pc = "panicked"]
  /\ UNCHANGED <<coreVars, registryVars, listener, clusterMngAdapter>>

\* Line 195 with an adapter: TriggerClusterHostUpdate(clusterName, hosts) is
\* UpdateClusterHosts(clusterName, 0, hosts) of the adapter's cluster manager,
\* made by the goroutine of the call.
TriggerClusterHostUpdate ==
  /\ xds.pc = "call"
  /\ clusterMngAdapter # 0
  /\ ops = xds.base
  /\ UpdateClusterHosts(TheWriter, xds.name, 0, xds.hosts)

\* Lines 195-201: the error of the attempt replaces errGlobal; nil leaves it.
ConvertUpdateEndpointsResult ==
  /\ xds.pc = "call"
  /\ ops = xds.base + 1
  /\ wpc[TheWriter] = "idle"
  /\ xds' = [xds EXCEPT !.errGlobal = IF wres[TheWriter] # "nil"
                                      THEN "update Error" ELSE @,
                        !.attempts = Append(@, [name |-> xds.name,
                                                hosts |-> xds.hosts,
                                                err |-> wres[TheWriter]]),
                        !.pc = "loop"]
  /\ UNCHANGED <<coreVars, registryVars, listener, clusterMngAdapter>>

\* The package before NewClusterManager was called: no cluster manager, no
\* adapter, nothing registered.
InitBefore ==
  /\ primaryClusters = [n \in Names |-> 0]
  /\ clusters = << >>
  /\ elems = << >>
  /\ pcs = << >>
  /\ rpc = [r \in Readers |-> "idle"]
  /\ rsnap = [r \in Readers |-> NoSnapshot]
  /\ wpc = [w \in Writers |-> "idle"]
  /\ wop = [w \in Writers |-> NoOp]
  /\ wl = [w \in Writers |-> NoLocals]
  /\ wres = [w \in Writers |-> "none"]
  /\ ops = 0
  /\ lastDone = 0
  /\ elemCluster = << >>
  /\ lastHolder = << >>
  /\ stalePut = FALSE
  /\ protocolConnPool = [p \in Protocols |-> [a \in Addresses |-> 0]]
  /\ connPools = << >>
  /\ rq = [r \in Readers |-> NoRequest]
  /\ clusterMangerInstance = 0
  /\ instanceMutex = ""
  /\ managers = << >>
  /\ nc = [c \in Callers |-> NoCall]
  /\ calls = 0
  /\ lbFactories = [k \in LbKinds |-> BuiltinFactory(k)]
  /\ sessionFactories = [p \in HcProtocols |-> NoFactory]
  /\ registered = << >>
  /\ ps = ExamplePrioritySets
  /\ lbCall = NoLbCall
  /\ hcCall = NoHcCall
  /\ listener = NoListener
  /\ clusterMngAdapter = 0
  /\ xds = NoXds

\* Endpoint updates that arrive before or after the cluster manager was
\* built, with readers that take and put snapshots of c1.
InitXds == Init \/ InitBefore

NextXds ==
  \/ \E las \in XdsInputs : ConvertUpdateEndpoints(las)
  \/ ConvertUpdateEndpointsNext
  \/ TriggerClusterHostUpdateNil
  \/ TriggerClusterHostUpdate
  \/ UpdateHostsLock(TheWriter)
  \/ UpdateHostsStore(TheWriter)
  \/ UpdateHostsWait(TheWriter)
  \/ ConvertUpdateEndpointsResult
  \/ \E r \in Readers : GetClusterSnapshot(r, "c1")
  \/ \E r \in Readers : GetClusterSnapshotLoad(r)
  \/ \E r \in Readers : PutClusterSnapshot(r)

XdsSpec == InitXds /\ [][NextXds]_vars

\* C38: a ConvertUpdateEndpoints call does not panic, and when a call that was
\* given an endpoint group has returned, it has attempted the host update of
\* every group and its error is not nil exactly when an attempt failed or the
\* adapter is nil.
C38_AllAttemptedErrorIffFailed ==
  /\ xds.pc # "panicked"
  /\ (xds.pc = "returned" /\ xds.total > 0)
     => /\ Len(xds.attempts) = xds.total
        /\ xds.errGlobal # "nil"
           <=> (\/ \E k \in 1..Len(xds.attempts) : xds.attempts[k].err # "nil"
                \/ clusterMngAdapter = 0)
====
